---- MODULE Spec2Model ----
(***************************************************************************)
(* A model of the stock valuation pipeline of chatbot/stock_analyzer.py    *)
(* (get_stock_data, _calculate_return, calculate_intrinsic_value,          *)
(* is_undervalued, generate_recommendation, analyze_stock) and of the      *)
(* intent router of chatbot/agent.py (_check_pattern_responses).           *)
(*                                                                         *)
(* Python values are modelled as follows.                                  *)
(*   None        the empty tuple <<>>                                      *)
(*   a number    an exact fraction <<n, d>> in lowest terms, d > 0; the    *)
(*               floats inf, -inf and nan are <<1, 0>>, <<-1, 0>>, <<0, 0>>*)
(*   a str       a label is the one-element tuple <<"text">>; a text that  *)
(*               the code takes apart (a ticker, a message, a trigger      *)
(*               pattern, the head of a reply) is the tuple of its         *)
(*               characters, a character outside ASCII being written by    *)
(*               its code point ("U+274C")                                 *)
(*   a dict      a record holding every key the code ever sets; a key the  *)
(*               dict does not hold has the value None (what dict.get      *)
(*               returns for it).  The code never stores None under a key  *)
(*               of the valuation dict, and get_stock_data sets every key  *)
(*               of the data dict, so nothing is lost.                     *)
(* Float arithmetic is modelled by exact rational arithmetic; the square   *)
(* root of the Graham number is truncated to 1/SqrtScale.                  *)
(***************************************************************************)
EXTENDS Integers, Sequences, FiniteSets, TLC

VARIABLES
    pc,               \* position of the one call the behaviour follows
    openai_client,    \* StockAnalyzer.openai_client: None or a client
    data,             \* the dict get_stock_data returned (or None)
    valuation,        \* the dict calculate_intrinsic_value returned (or None)
    signals,          \* is_undervalued's local list `signals`
    upside_estimates, \* is_undervalued's local list `upside_estimates`
    verdict,          \* the tuple is_undervalued returned (or None)
    reply,            \* the string analyze_stock returned (or None)
    symbol,           \* the argument of analyze_stock
    provider_calls,   \* the market-data provider's calls, in order
    openai_calls,     \* the prose collaborator's calls, in order
    hist,             \* the closes of the history _calculate_return is given
    returns,          \* the derived returns, by window (or None)
    rpc,              \* position of the one _check_pattern_responses call
    message,          \* its argument
    pattern_idx,      \* the natural_stock_patterns entry its loop is at
    bot_responses,    \* the BotResponse table, by primary key
    response,         \* the string _check_pattern_responses returned
    dispatched,       \* the analyze_stock calls it made, with their results
    openai_enabled,   \* ChatAutomationAgent.openai_enabled
    conversations,    \* the Conversation table, in the order of creation
    stored_messages,  \* the Message table, in the order of creation
    requests          \* the HTTP requests being served, each with its locals

\* What analyze_stock's caller sees and what the collaborators were asked.
callVars == <<symbol, provider_calls, openai_calls>>

\* The state of _calculate_return's direct calls.
histVars == <<hist, returns>>

\* The state of the intent router.
routeVars == <<rpc, message, pattern_idx, bot_responses, response, dispatched>>

\* The agent's setting, the conversation log and the requests in progress.
serverVars == <<openai_enabled, conversations, stored_messages, requests>>

vars == <<pc, openai_client, data, valuation, signals, upside_estimates,
          verdict, reply, callVars, histVars, routeVars, serverVars>>

-----------------------------------------------------------------------------
(* Python values *)

None == <<>>

Str(s) == <<s>>

Abs(n) == IF n < 0 THEN -n ELSE n

RECURSIVE GCD(_, _)
GCD(a, b) == IF b = 0 THEN a ELSE GCD(b, a % b)

\* The fraction n/d (d # 0) in lowest terms with a positive denominator.
Frac(n, d) ==
    LET s == IF d < 0 THEN -1 ELSE 1
        g == GCD(Abs(n), Abs(d))
    IN  <<(s * n) \div g, (s * d) \div g>>

Int2Num(n) == <<n, 1>>

RAdd(a, b) == Frac(a[1] * b[2] + b[1] * a[2], a[2] * b[2])
RSub(a, b) == Frac(a[1] * b[2] - b[1] * a[2], a[2] * b[2])
RMul(a, b) == Frac(a[1] * b[1], a[2] * b[2])
RDiv(a, b) == Frac(a[1] * b[2], a[2] * b[1])
RLt(a, b)  == a[1] * b[2] < b[1] * a[2]
RGt(a, b)  == RLt(b, a)

\* Python truth value of None or a number: `if x:` / `not x`.
Truthy(v) == v # None /\ v[1] # 0

\* Python `a or b`.
Or(a, b) == IF Truthy(a) THEN a ELSE b

\* Precision of the modelled square root: results are multiples of 1/SqrtScale.
SqrtScale == 100

RECURSIVE IsqrtBetween(_, _, _)
IsqrtBetween(x, lo, hi) ==
    IF lo >= hi THEN lo
    ELSE LET mid == (lo + hi + 1) \div 2
         IN  IF mid * mid <= x THEN IsqrtBetween(x, mid, hi)
             ELSE IsqrtBetween(x, lo, mid - 1)

\* The largest r with r * r <= x, for 0 <= x < 2^30.
Isqrt(x) == IsqrtBetween(x, 0, 32767)

\* r ** 0.5 for a fraction r >= 0, truncated to a multiple of 1/SqrtScale
\* (exact whenever the root is such a multiple).
Sqrt(r) == Frac(Isqrt((r[1] * SqrtScale * SqrtScale) \div r[2]), SqrtScale)

\* The float quotient a / b of two finite numbers as numpy computes it: a
\* division by zero raises nothing, it gives inf, -inf or nan.
FloatDiv(a, b) ==
    IF b[1] # 0 THEN RDiv(a, b)
    ELSE IF a[1] > 0 THEN <<1, 0>>
    ELSE IF a[1] < 0 THEN <<-1, 0>>
    ELSE <<0, 0>>

\* The float product a * b, b finite and positive: inf, -inf and nan stay.
FloatMul(a, b) == IF a[2] = 0 THEN a ELSE RMul(a, b)

IsFinite(x) == x # None /\ x[2] # 0

-----------------------------------------------------------------------------
(* Python str *)

LowerCase == <<"a", "b", "c", "d", "e", "f", "g", "h", "i", "j", "k", "l", "m",
               "n", "o", "p", "q", "r", "s", "t", "u", "v", "w", "x", "y", "z">>
UpperCase == <<"A", "B", "C", "D", "E", "F", "G", "H", "I", "J", "K", "L", "M",
               "N", "O", "P", "Q", "R", "S", "T", "U", "V", "W", "X", "Y", "Z">>
Digits    == <<"0", "1", "2", "3", "4", "5", "6", "7", "8", "9">>

Chars(seq) == {seq[i] : i \in 1..Len(seq)}

Letters == Chars(LowerCase) \cup Chars(UpperCase)
Spaces  == {" ", "\t", "\n"}
IsLetter(c) == c \in Letters
IsSpace(c)  == c \in Spaces
\* A character of the class \w.
IsWord(c)   == IsLetter(c) \/ c \in Chars(Digits) \/ c = "_"

LowerChar(c) ==
    IF c \in Chars(UpperCase)
    THEN LowerCase[CHOOSE i \in 1..26 : UpperCase[i] = c]
    ELSE c

UpperChar(c) ==
    IF c \in Chars(LowerCase)
    THEN UpperCase[CHOOSE i \in 1..26 : LowerCase[i] = c]
    ELSE c

\* str.lower() and str.upper()
lower(s) == [i \in 1..Len(s) |-> LowerChar(s[i])]
upper(s) == [i \in 1..Len(s) |-> UpperChar(s[i])]

\* str.strip()
strip(s) ==
    LET inside == {i \in 1..Len(s) : ~IsSpace(s[i])}
    IN  IF inside = {} THEN <<>>
        ELSE SubSeq(s, CHOOSE i \in inside : \A j \in inside : i <= j,
                       CHOOSE i \in inside : \A j \in inside : i >= j)

\* str.startswith(prefix)
startswith(s, prefix) ==
    /\ Len(prefix) <= Len(s)
    /\ \A i \in 1..Len(prefix) : s[i] = prefix[i]

-----------------------------------------------------------------------------
(* get_stock_data *)

\* What the market-data provider can answer for a ticker: the call raises,
\* the history is empty, or it returns an info map (a key yfinance leaves out
\* reads as None through info.get).
ProviderOutcomes == {"raises", "empty", "ok"}

Prices        == {Int2Num(0), Int2Num(150), Int2Num(180)}
PeRatios      == {Int2Num(-5), Int2Num(0), Int2Num(15)}
EpsValues     == {Int2Num(-1), Int2Num(0), Int2Num(10), Int2Num(11)}
PbRatios      == {Int2Num(-1), Int2Num(0), Frac(4, 5), Int2Num(1), Int2Num(3),
                  Int2Num(4)}
PegRatios     == {Int2Num(-1), Int2Num(0), Frac(9, 10), Int2Num(1), Int2Num(2),
                  Int2Num(3)}
TargetPrices  == {Int2Num(0), Int2Num(165), Int2Num(198)}
RoeValues     == {Frac(18, 100)}
ProfitMargins == {Frac(12, 100)}

Optional(S) == {None} \cup S

Infos ==
    [currentPrice:       Optional(Prices \ {Int2Num(180)}),
     regularMarketPrice: Optional({Int2Num(0), Int2Num(180)}),
     trailingPE:         Optional(PeRatios),
     priceToBook:        Optional(PbRatios),
     pegRatio:           Optional(PegRatios),
     trailingEps:        Optional(EpsValues),
     profitMargins:      Optional(ProfitMargins),
     returnOnEquity:     Optional(RoeValues),
     targetMeanPrice:    Optional(TargetPrices)]

\* The info map with the given values, in the order of Infos' keys.
InfoOf(cp, rmp, pe, pb, peg, eps, pm, roe, tp) ==
    [currentPrice |-> cp, regularMarketPrice |-> rmp, trailingPE |-> pe,
     priceToBook |-> pb, pegRatio |-> peg, trailingEps |-> eps,
     profitMargins |-> pm, returnOnEquity |-> roe, targetMeanPrice |-> tp]

\* get_stock_data without the `if hist.empty` test.
get_stock_data_keeps_empty(outcome, info) ==
    IF outcome = "raises" THEN None
    ELSE [current_price |-> Or(info.currentPrice, info.regularMarketPrice),
          pe_ratio      |-> info.trailingPE,
          pb_ratio      |-> info.priceToBook,
          peg_ratio     |-> info.pegRatio,
          eps           |-> info.trailingEps,
          profit_margin |-> info.profitMargins,
          roe           |-> info.returnOnEquity,
          target_price  |-> info.targetMeanPrice]

\* The dict get_stock_data returns, or None when the history is empty or the
\* provider raises (the except clause).  Only the keys the valuation reads are
\* kept.
get_stock_data(outcome, info) ==
    IF outcome = "raises" THEN None
    ELSE IF outcome = "empty" THEN None
    ELSE [current_price |-> Or(info.currentPrice, info.regularMarketPrice),
          pe_ratio      |-> info.trailingPE,
          pb_ratio      |-> info.priceToBook,
          peg_ratio     |-> info.pegRatio,
          eps           |-> info.trailingEps,
          profit_margin |-> info.profitMargins,
          roe           |-> info.returnOnEquity,
          target_price  |-> info.targetMeanPrice]

\* The windows, in trading days, of '52w_return', '1m_return', '1w_return'.
Windows == {252, 21, 5}

\* _calculate_return(hist, days) for a history whose closes are h: None when
\* the history is shorter than the window, else the change from
\* hist['Close'].iloc[-days] to hist['Close'].iloc[-1] in percent.  The closes
\* are numpy floats, so no step of the quotient raises and the except clause
\* is never entered.
_calculate_return(h, days) ==
    IF Len(h) < days THEN None
    ELSE LET start_price == h[Len(h) - days + 1]
             end_price   == h[Len(h)]
         IN  FloatMul(FloatDiv(RSub(end_price, start_price), start_price),
                      Int2Num(100))

-----------------------------------------------------------------------------
(* calculate_intrinsic_value *)

\* `results = {}`
EmptyResults ==
    [pe_fair_value |-> None, pe_upside     |-> None,
     graham_number |-> None, graham_upside |-> None,
     peg_ratio     |-> None, peg_valuation |-> None,
     pb_ratio      |-> None, pb_signal     |-> None,
     target_price  |-> None, target_upside |-> None]

fair_pe == 18

\* ((value - current_price) / current_price) * 100
Upside(value, current_price) ==
    RMul(RDiv(RSub(value, current_price), current_price), Int2Num(100))

\* 1. P/E based valuation.  `eps = data.get('eps', 0)` is None when the key
\* holds None, and `eps > 0` then raises TypeError.
PeRaises(d) ==
    /\ Truthy(d.pe_ratio) /\ RGt(d.pe_ratio, Int2Num(0))
    /\ d.eps = None

\* PeValuation with the reference multiple replaced by the stock's own P/E.
PeValuationOwnMultiple(d, results) ==
    IF Truthy(d.pe_ratio) /\ RGt(d.pe_ratio, Int2Num(0))
       /\ RGt(d.eps, Int2Num(0))
    THEN LET pe_fair_value == RMul(d.eps, d.pe_ratio)
         IN  [results EXCEPT
                 !.pe_fair_value = pe_fair_value,
                 !.pe_upside = Upside(pe_fair_value, d.current_price)]
    ELSE results

PeValuation(d, results) ==
    IF Truthy(d.pe_ratio) /\ RGt(d.pe_ratio, Int2Num(0))
       /\ RGt(d.eps, Int2Num(0))
    THEN LET pe_fair_value == RMul(d.eps, Int2Num(fair_pe))
         IN  [results EXCEPT
                 !.pe_fair_value = pe_fair_value,
                 !.pe_upside = Upside(pe_fair_value, d.current_price)]
    ELSE results

\* 2. Graham number.
BookValue(d) ==
    IF Truthy(d.pb_ratio) THEN RDiv(d.current_price, d.pb_ratio) ELSE None

GrahamValuation(d, results) ==
    LET eps        == d.eps
        book_value == BookValue(d)
    IN  IF Truthy(eps) /\ Truthy(book_value)
           /\ RGt(eps, Int2Num(0)) /\ RGt(book_value, Int2Num(0))
        THEN LET graham_number ==
                     Sqrt(RMul(RMul(Frac(225, 10), eps), book_value))
             IN  [results EXCEPT
                     !.graham_number = graham_number,
                     !.graham_upside = Upside(graham_number, d.current_price)]
        ELSE results

\* 3. PEG ratio analysis.
PegLabel(peg_ratio) ==
    IF RLt(peg_ratio, Int2Num(1)) THEN Str("undervalued")
    ELSE IF RGt(peg_ratio, Int2Num(2)) THEN Str("overvalued")
    ELSE Str("fairly valued")

PegValuation(d, results) ==
    IF Truthy(d.peg_ratio)
    THEN [results EXCEPT !.peg_ratio = d.peg_ratio,
                         !.peg_valuation = PegLabel(d.peg_ratio)]
    ELSE results

\* 4. Price to book analysis.
PbLabel(pb_ratio) ==
    IF RLt(pb_ratio, Int2Num(1)) THEN Str("undervalued")
    ELSE IF RGt(pb_ratio, Int2Num(3)) THEN Str("overvalued")
    ELSE Str("neutral")

PbValuation(d, results) ==
    IF Truthy(d.pb_ratio)
    THEN [results EXCEPT !.pb_ratio = d.pb_ratio,
                         !.pb_signal = PbLabel(d.pb_ratio)]
    ELSE results

\* 5. Analyst target price.
TargetValuation(d, results) ==
    IF Truthy(d.target_price)
    THEN [results EXCEPT
             !.target_price = d.target_price,
             !.target_upside = Upside(d.target_price, d.current_price)]
    ELSE results

\* calculate_intrinsic_value ending in `return results or None`.
calculate_intrinsic_value_or_none(d) ==
    IF ~Truthy(d.current_price) THEN None
    ELSE IF PeRaises(d) THEN None
    ELSE LET results == TargetValuation(d,
                          PbValuation(d,
                            PegValuation(d,
                              GrahamValuation(d,
                                PeValuation(d, EmptyResults)))))
         IN  IF results = EmptyResults THEN None ELSE results

\* The dict of results, or None: when current_price is falsy, and when a
\* step raises (caught by the method's except clause).
calculate_intrinsic_value(d) ==
    IF ~Truthy(d.current_price) THEN None
    ELSE IF PeRaises(d) THEN None
    ELSE TargetValuation(d,
           PbValuation(d,
             PegValuation(d,
               GrahamValuation(d,
                 PeValuation(d, EmptyResults)))))

-----------------------------------------------------------------------------
(* is_undervalued *)

\* `x and x > t` for x None or a number.
Above(x, t) == Truthy(x) /\ RGt(x, t)

IfThen(cond, seq) == IF cond THEN seq ELSE <<>>

PegVotes(v)    == v.peg_valuation = Str("undervalued")
\* PeVotes with `>=` for `>`.
PeVotesAtThreshold(v) ==
    Truthy(v.pe_upside) /\ ~RLt(v.pe_upside, Int2Num(10))

PeVotes(v)     == Above(v.pe_upside, Int2Num(10))
GrahamVotes(v) == Above(v.graham_upside, Int2Num(15))
PbVotes(v)     == v.pb_signal = Str("undervalued")
TargetVotes(v) == Above(v.target_upside, Int2Num(10))
ProfitabilityVotes(d) ==
    Above(d.roe, Frac(15, 100)) /\ Above(d.profit_margin, Frac(10, 100))

\* The list `signals` when the six checks are done.
Signals(d, v) ==
    IfThen(PegVotes(v), <<"peg">>)
    \o IfThen(PeVotes(v), <<"pe">>)
    \o IfThen(GrahamVotes(v), <<"graham">>)
    \o IfThen(PbVotes(v), <<"pb">>)
    \o IfThen(TargetVotes(v), <<"analyst">>)
    \o IfThen(ProfitabilityVotes(d), <<"profitability">>)

\* The list `upside_estimates` when the six checks are done.
UpsideEstimates(d, v) ==
    IfThen(PegVotes(v), <<Int2Num(20)>>)
    \o IfThen(PeVotes(v), <<v.pe_upside>>)
    \o IfThen(GrahamVotes(v), <<v.graham_upside>>)
    \o IfThen(PbVotes(v), <<Int2Num(15)>>)
    \o IfThen(TargetVotes(v), <<v.target_upside>>)

RECURSIVE SumSeq(_)
SumSeq(s) == IF s = <<>> THEN Int2Num(0) ELSE RAdd(Head(s), SumSeq(Tail(s)))

\* AvgUpside dividing by the number of signals that can give an estimate.
AvgUpsideOverAll(estimates) ==
    IF estimates # <<>> THEN RDiv(SumSeq(estimates), Int2Num(5))
    ELSE Int2Num(0)

\* np.mean(upside_estimates) if upside_estimates else 0
AvgUpside(estimates) ==
    IF estimates # <<>> THEN RDiv(SumSeq(estimates), Int2Num(Len(estimates)))
    ELSE Int2Num(0)

\* Verdict with `>` for `>=` in the first test.
VerdictStrict(num_signals, avg_upside) ==
    IF num_signals > 3 THEN
        [is_undervalued |-> TRUE, confidence |-> "high", upside |-> avg_upside]
    ELSE IF num_signals >= 2 THEN
        [is_undervalued |-> TRUE, confidence |-> "medium", upside |-> avg_upside]
    ELSE IF num_signals >= 1 THEN
        [is_undervalued |-> TRUE, confidence |-> "low", upside |-> avg_upside]
    ELSE
        [is_undervalued |-> FALSE, confidence |-> "none", upside |-> Int2Num(0)]

\* Verdict with every threshold one vote higher: two votes give low
\* confidence.
VerdictLowBelowThree(num_signals, avg_upside) ==
    IF num_signals >= 4 THEN
        [is_undervalued |-> TRUE, confidence |-> "high", upside |-> avg_upside]
    ELSE IF num_signals >= 3 THEN
        [is_undervalued |-> TRUE, confidence |-> "medium", upside |-> avg_upside]
    ELSE IF num_signals >= 1 THEN
        [is_undervalued |-> TRUE, confidence |-> "low", upside |-> avg_upside]
    ELSE
        [is_undervalued |-> FALSE, confidence |-> "none", upside |-> Int2Num(0)]

\* The tuple (is_undervalued, confidence_level, expected_upside).
Verdict(num_signals, avg_upside) ==
    IF num_signals >= 3 THEN
        [is_undervalued |-> TRUE, confidence |-> "high", upside |-> avg_upside]
    ELSE IF num_signals >= 2 THEN
        [is_undervalued |-> TRUE, confidence |-> "medium", upside |-> avg_upside]
    ELSE IF num_signals >= 1 THEN
        [is_undervalued |-> TRUE, confidence |-> "low", upside |-> avg_upside]
    ELSE
        [is_undervalued |-> FALSE, confidence |-> "none", upside |-> Int2Num(0)]

is_undervalued(d, v) ==
    Verdict(Len(Signals(d, v)), AvgUpside(UpsideEstimates(d, v)))

-----------------------------------------------------------------------------
(* generate_recommendation *)

\* The action label of _generate_rule_based_recommendation.
\* ActionLabel with `>=` for `>` in both tests of the upside.
ActionLabelAtThreshold(is_undervalued_, confidence, upside) ==
    IF is_undervalued_ /\ confidence = "high" /\ ~RLt(upside, Int2Num(20))
    THEN "STRONG BUY"
    ELSE IF is_undervalued_ /\ confidence \in {"high", "medium"}
            /\ ~RLt(upside, Int2Num(10))
    THEN "BUY"
    ELSE IF is_undervalued_ /\ confidence = "low" THEN "HOLD/ACCUMULATE"
    ELSE "HOLD"

ActionLabel(is_undervalued_, confidence, upside) ==
    IF is_undervalued_ /\ confidence = "high" /\ RGt(upside, Int2Num(20))
    THEN "STRONG BUY"
    ELSE IF is_undervalued_ /\ confidence \in {"high", "medium"}
            /\ RGt(upside, Int2Num(10))
    THEN "BUY"
    ELSE IF is_undervalued_ /\ confidence = "low"
    THEN "HOLD/ACCUMULATE"
    ELSE "HOLD"

\* The text of the rule-based renderer: it begins "**{action}**" (the emoji
\* of the label and the annotations that follow it are left out).
_generate_rule_based_recommendation(ver) ==
    [kind   |-> "rule_based",
     action |-> ActionLabel(ver.is_undervalued, ver.confidence, ver.upside),
     text   |-> <<"*", "*",
                  ActionLabel(ver.is_undervalued, ver.confidence, ver.upside),
                  "*", "*">>]

\* Replies the prose collaborator can give: any text, one that begins with
\* the cross mark included.
OpenAIReplies == {<<"B", "u", "y", ".">>, <<"U+274C", " ", "S", "e", "l", "l">>}

\* What the prose collaborator does when it is called.
OpenAIOutcomes ==
    {[kind |-> "raises", content |-> <<>>]}
    \cup {[kind |-> "answers", content |-> c] : c \in OpenAIReplies}

\* generate_recommendation that has no fallback after the except clause.
generate_recommendation_no_fallback(client, openai, ver) ==
    IF client # None /\ openai.kind = "answers"
    THEN [kind |-> "openai", action |-> "", text |-> openai.content]
    ELSE IF client # None THEN None
    ELSE _generate_rule_based_recommendation(ver)

\* generate_recommendation that does not test `if self.openai_client`.
generate_recommendation_any_client(client, openai, ver) ==
    IF openai.kind = "answers"
    THEN [kind |-> "openai", action |-> "", text |-> openai.content]
    ELSE _generate_rule_based_recommendation(ver)

\* The text returned: the collaborator's when one is configured and answers,
\* the rule-based text otherwise.
generate_recommendation(client, openai, ver) ==
    IF client # None /\ openai.kind = "answers"
    THEN [kind |-> "openai", action |-> "", text |-> openai.content]
    ELSE _generate_rule_based_recommendation(ver)

\* The calls generate_recommendation makes to the collaborator: one, inside
\* `if self.openai_client:`.
CollaboratorCalls(client, openai) ==
    IF client # None THEN <<openai.kind>> ELSE <<>>

-----------------------------------------------------------------------------
(* analyze_stock *)

\* The two characters the failure messages of analyze_stock begin with.
FailureMark == <<"U+00E2", "U+0152">>

FetchFailure(sym) ==
    [kind |-> "unable_to_fetch", action |-> "",
     text |-> FailureMark \o <<" Unable to fetch data for ">> \o upper(sym)
              \o <<". Please check the ticker symbol.">>]

ValuationFailure(sym) ==
    [kind |-> "unable_to_calculate", action |-> "",
     text |-> FailureMark \o <<" Unable to calculate valuation for ">>
              \o upper(sym) \o <<".">>]

\* Python truth value of the valuation dict: None and {} are both falsy.
TruthyDict(v) == v # None /\ v # EmptyResults

\* The body of is_undervalued(data, valuation): its two lists when the
\* checks are done, and the tuple it returns.
RunIsUndervalued ==
    /\ signals' = Signals(data, valuation)
    /\ upside_estimates' = UpsideEstimates(data, valuation)
    /\ verdict' = is_undervalued(data, valuation)

\* 1. Fetch data: `data = self.get_stock_data(symbol)`, which asks the
\* provider for symbol.upper().
GetStockData(outcome, info) ==
    /\ pc = "idle"
    /\ data' = get_stock_data(outcome, info)
    /\ provider_calls' =
           Append(provider_calls, [symbol |-> upper(symbol), outcome |-> outcome])
    /\ pc' = "fetched"
    /\ UNCHANGED serverVars
    /\ UNCHANGED <<openai_client, valuation, signals, upside_estimates,
                   verdict, reply, symbol, openai_calls, histVars, routeVars>>

\* `if not data: return "Unable to fetch data ..."`
FetchUnavailable ==
    /\ pc = "fetched"
    /\ data = None
    /\ reply' = FetchFailure(symbol)
    /\ pc' = "done"
    /\ UNCHANGED serverVars
    /\ UNCHANGED <<openai_client, data, valuation, signals, upside_estimates,
                   verdict, callVars, histVars, routeVars>>

\* 2. Calculate valuation: `valuation = self.calculate_intrinsic_value(data)`.
CalculateIntrinsicValue ==
    /\ pc = "fetched"
    /\ data # None
    /\ valuation' = calculate_intrinsic_value(data)
    /\ pc' = "valued"
    /\ UNCHANGED serverVars
    /\ UNCHANGED <<openai_client, data, signals, upside_estimates, verdict,
                   reply, callVars, histVars, routeVars>>

\* `if not valuation: return "Unable to calculate valuation ..."`
ValuationUnavailable ==
    /\ pc = "valued"
    /\ ~TruthyDict(valuation)
    /\ reply' = ValuationFailure(symbol)
    /\ pc' = "done"
    /\ UNCHANGED serverVars
    /\ UNCHANGED <<openai_client, data, valuation, signals, upside_estimates,
                   verdict, callVars, histVars, routeVars>>

\* 3. Determine if undervalued: `self.is_undervalued(data, valuation)`.
IsUndervalued ==
    /\ pc = "valued"
    /\ TruthyDict(valuation)
    /\ RunIsUndervalued
    /\ pc' = "judged"
    /\ UNCHANGED serverVars
    /\ UNCHANGED <<openai_client, data, valuation, reply, callVars, histVars,
                   routeVars>>

\* 4. Generate recommendation, and return it.
GenerateRecommendation(openai) ==
    /\ pc = "judged"
    /\ reply' = generate_recommendation(openai_client, openai, verdict)
    /\ openai_calls' = openai_calls \o CollaboratorCalls(openai_client, openai)
    /\ pc' = "done"
    /\ UNCHANGED serverVars
    /\ UNCHANGED <<openai_client, data, valuation, signals, upside_estimates,
                   verdict, symbol, provider_calls, histVars, routeVars>>

\* No history is under study and no message is being routed: analyze_stock
\* is called directly, as handle_user_message and the test script do.
NoHistory == hist = None /\ returns = None

NoRoute ==
    /\ rpc = "direct"
    /\ message = None
    /\ pattern_idx = 0
    /\ bot_responses = <<>>
    /\ response = None
    /\ dispatched = <<>>

\* No request is being served: the method is called on its own.
NoServer ==
    /\ openai_enabled = FALSE
    /\ conversations = <<>>
    /\ stored_messages = <<>>
    /\ requests = <<>>

\* The locals of an analyze_stock call that has not started.
NotStarted ==
    /\ data = None
    /\ valuation = None
    /\ signals = <<>>
    /\ upside_estimates = <<>>
    /\ verdict = None
    /\ reply = None

\* The ticker of the call that Spec follows.
AnalyzedTicker == <<"a", "a", "p", "l">>

\* StockAnalyzer.__init__: the client exists iff OPENAI_API_KEY is set.
\* One call of analyze_stock is followed from its start to its return: the
\* analyzer keeps nothing between calls.
Init ==
    /\ NoServer
    /\ pc = "idle"
    /\ openai_client \in {None, Str("client")}
    /\ NotStarted
    /\ symbol = AnalyzedTicker
    /\ provider_calls = <<>>
    /\ openai_calls = <<>>
    /\ NoHistory
    /\ NoRoute

\* A provider that fails answers with no info map at all.
NoInfo == InfoOf(None, None, None, None, None, None, None, None, None)

\* The steps of analyze_stock after the fetch.
AfterFetch ==
    \/ FetchUnavailable
    \/ CalculateIntrinsicValue
    \/ ValuationUnavailable
    \/ IsUndervalued
    \/ \E openai \in OpenAIOutcomes : GenerateRecommendation(openai)

Next ==
    \/ /\ pc = "idle"
       /\ \/ \E outcome \in ProviderOutcomes \ {"ok"} :
                 GetStockData(outcome, NoInfo)
          \/ \E info \in Infos : GetStockData("ok", info)
    \/ AfterFetch

Spec == Init /\ [][Next]_vars

-----------------------------------------------------------------------------
(* analyze_stock called with any ticker string, the provider answering with *)
(* one of a few info maps.                                                   *)

\* "aapl", "TSLA", "Msft", the empty string and a text that is no ticker.
Tickers ==
    {<<"a", "a", "p", "l">>, <<"T", "S", "L", "A">>, <<"M", "s", "f", "t">>,
     <<>>, <<"n", "o", " ", "s", "u", "c", "h">>}

\* Five of the info maps of Infos: one that four signals vote for, one whose
\* only signal does not vote, one with a price alone, one with no price and
\* one whose P/E ratio comes without earnings per share.
TickerInfos ==
    {InfoOf(Int2Num(150), None, Int2Num(15), Int2Num(3), Frac(9, 10),
            Int2Num(10), Frac(12, 100), Frac(18, 100), Int2Num(198)),
     InfoOf(None, Int2Num(180), Int2Num(15), None, None, Int2Num(10), None,
            None, None),
     InfoOf(None, Int2Num(180), None, None, None, None, None, None, None),
     InfoOf(None, None, Int2Num(15), None, None, Int2Num(10), None, None,
            None),
     InfoOf(Int2Num(150), None, Int2Num(15), None, None, None, None, None,
            None)}

\* analyze_stock from its first line, the provider answering from TickerInfos.
AnalyzeStock ==
    \/ /\ pc = "idle"
       /\ \/ \E outcome \in ProviderOutcomes \ {"ok"} :
                 GetStockData(outcome, NoInfo)
          \/ \E info \in TickerInfos : GetStockData("ok", info)
    \/ AfterFetch

InitTickers ==
    /\ NoServer
    /\ pc = "idle"
    /\ openai_client \in {None, Str("client")}
    /\ NotStarted
    /\ symbol \in Tickers
    /\ provider_calls = <<>>
    /\ openai_calls = <<>>
    /\ NoHistory
    /\ NoRoute

NextTickers == AnalyzeStock

SpecTickers == InitTickers /\ [][NextTickers]_vars

-----------------------------------------------------------------------------
(* The methods called on their own, as a unit test does: the inputs are      *)
(* drawn by the initial state.                                               *)

\* Every dict get_stock_data can return for a provider that answers.
Snapshots == {get_stock_data("ok", info) : info \in Infos}

\* is_undervalued reads roe and profit_margin of the data dict and five keys
\* of the valuation dict; the keys it does not read are left out (None).
VerdictData ==
    [current_price: {Int2Num(150)}, pe_ratio: {None}, pb_ratio: {None},
     peg_ratio: {None}, eps: {None}, target_price: {None},
     roe: Optional({Int2Num(0), Frac(15, 100), Frac(18, 100)}),
     profit_margin: Optional({Frac(10, 100), Frac(12, 100)})]

VerdictValuations ==
    [pe_fair_value: {None}, graham_number: {None}, peg_ratio: {None},
     pb_ratio: {None}, target_price: {None},
     peg_valuation: Optional({Str("undervalued"), Str("fairly valued"),
                              Str("overvalued")}),
     pb_signal: Optional({Str("undervalued"), Str("neutral"),
                          Str("overvalued")}),
     pe_upside: Optional({Int2Num(-5), Int2Num(0), Int2Num(10), Frac(21, 2),
                          Int2Num(20)}),
     graham_upside: Optional({Int2Num(0), Int2Num(15), Int2Num(30)}),
     target_upside: Optional({Int2Num(-8), Int2Num(10), Int2Num(32)})]

\* calculate_intrinsic_value(data), called directly.
CallCalculateIntrinsicValue ==
    /\ pc = "calculate"
    /\ valuation' = calculate_intrinsic_value(data)
    /\ pc' = "calculated"
    /\ UNCHANGED serverVars
    /\ UNCHANGED <<openai_client, data, signals, upside_estimates, verdict,
                   reply, callVars, histVars, routeVars>>

\* is_undervalued(data, valuation) on the dict calculate_intrinsic_value
\* returned, whenever it returned one.
CallIsUndervaluedOnResult ==
    /\ pc = "calculated"
    /\ valuation # None
    /\ RunIsUndervalued
    /\ pc' = "calculated_judged"
    /\ UNCHANGED serverVars
    /\ UNCHANGED <<openai_client, data, valuation, reply, callVars, histVars,
                   routeVars>>

\* is_undervalued(data, valuation) on drawn arguments.
CallIsUndervalued ==
    /\ pc = "judge"
    /\ RunIsUndervalued
    /\ pc' = "returned"
    /\ UNCHANGED serverVars
    /\ UNCHANGED <<openai_client, data, valuation, reply, callVars, histVars,
                   routeVars>>

\* The verdicts the renderer is called with: every combination, those that
\* is_undervalued never returns included.
RenderVerdicts ==
    [is_undervalued: BOOLEAN,
     confidence: {"high", "medium", "low", "none"},
     upside: {Int2Num(-5), Int2Num(0), Int2Num(10), Frac(21, 2), Int2Num(20),
              Frac(41, 2), Int2Num(30)}]

\* _generate_rule_based_recommendation on drawn arguments.
CallGenerateRuleBased ==
    /\ pc = "render"
    /\ reply' = _generate_rule_based_recommendation(verdict)
    /\ pc' = "rendered"
    /\ UNCHANGED serverVars
    /\ UNCHANGED <<openai_client, data, valuation, signals, upside_estimates,
                   verdict, callVars, histVars, routeVars>>

\* How many closes more than a window the longest drawn history has.
MaxExtraCloses == 1

HistLengths ==
    {0} \cup {w + k : w \in Windows, k \in (0 - 1)..MaxExtraCloses}

\* A history of n closes that ends with `last` and has `first` where a
\* window of w closes starts; every other close is 100.
Series(n, w, first, last) ==
    [i \in 1..n |-> IF i = n THEN last
                    ELSE IF i = n - w + 1 THEN first
                    ELSE Int2Num(100)]

Histories ==
    {Series(n, w, first, last) :
        n \in HistLengths, w \in Windows,
        first \in {Int2Num(0), Int2Num(100)},
        last \in {Int2Num(0), Int2Num(100), Int2Num(110)}}

\* The three _calculate_return calls of get_stock_data on one history.
CallCalculateReturns ==
    /\ pc = "returns"
    /\ returns' = [w \in Windows |-> _calculate_return(hist, w)]
    /\ pc' = "returns_done"
    /\ UNCHANGED serverVars
    /\ UNCHANGED <<openai_client, data, valuation, signals, upside_estimates,
                   verdict, reply, callVars, hist, routeVars>>

InitCalls ==
    /\ NoServer
    /\ openai_client = None
    /\ symbol = AnalyzedTicker
    /\ provider_calls = <<>>
    /\ openai_calls = <<>>
    /\ NoRoute
    /\ signals = <<>>
    /\ upside_estimates = <<>>
    /\ reply = None
    /\ returns = None
    /\ \/ /\ pc = "calculate"
          /\ data \in Snapshots
          /\ valuation = None
          /\ verdict = None
          /\ hist = None
       \/ /\ pc = "judge"
          /\ data \in VerdictData
          /\ valuation \in VerdictValuations
          /\ verdict = None
          /\ hist = None
       \/ /\ pc = "render"
          /\ data = None
          /\ valuation = None
          /\ verdict \in RenderVerdicts
          /\ hist = None
       \/ /\ pc = "returns"
          /\ data = None
          /\ valuation = None
          /\ verdict = None
          /\ hist \in Histories

NextCalls ==
    \/ CallCalculateIntrinsicValue
    \/ CallIsUndervaluedOnResult
    \/ CallIsUndervalued
    \/ CallGenerateRuleBased
    \/ CallCalculateReturns

SpecCalls == InitCalls /\ [][NextCalls]_vars

-----------------------------------------------------------------------------
(* The regular expressions of _check_pattern_responses, on texts that are    *)
(* tuples of characters                                                      *)

\* The character at position i, or "" (no character) off the text.
At(s, i) == IF i \in 1..Len(s) THEN s[i] ELSE ""

\* \b at position i: between s[i-1] and s[i], one is a word character and
\* the other is not.
Boundary(s, i) == IsWord(At(s, i - 1)) # IsWord(At(s, i))

\* The literal lit is at position i, letter case ignored.
LitAt(s, i, lit) ==
    /\ i + Len(lit) - 1 <= Len(s)
    /\ \A k \in 1..Len(lit) : LowerChar(s[i + k - 1]) = LowerChar(lit[k])

\* The last position of the longest run of characters of a class that
\* starts at position i (i - 1 when s[i] is not of the class): what a greedy
\* `+` takes.
RunEnd(s, i, class) ==
    CHOOSE j \in (i - 1)..Len(s) :
        /\ \A k \in i..j : s[k] \in class
        /\ j = Len(s) \/ s[j + 1] \notin class

\* The smallest element of a non-empty set of positions: re.search returns
\* the leftmost match.
Leftmost(S) == CHOOSE i \in S : \A j \in S : i <= j

\* analy[sz]e|analysis on|check|look at|tell me about|what about|how is|
\* give me analysis on
Verbs ==
    <<<<"a", "n", "a", "l", "y", "z", "e">>,
      <<"a", "n", "a", "l", "y", "s", "e">>,
      <<"a", "n", "a", "l", "y", "s", "i", "s", " ", "o", "n">>,
      <<"c", "h", "e", "c", "k">>,
      <<"l", "o", "o", "k", " ", "a", "t">>,
      <<"t", "e", "l", "l", " ", "m", "e", " ", "a", "b", "o", "u", "t">>,
      <<"w", "h", "a", "t", " ", "a", "b", "o", "u", "t">>,
      <<"h", "o", "w", " ", "i", "s">>,
      <<"g", "i", "v", "e", " ", "m", "e", " ", "a", "n", "a", "l", "y", "s", "i", "s", " ", "o", "n">>>>

\* stock|analysis|price|valuation
Nouns ==
    <<<<"s", "t", "o", "c", "k">>,
      <<"a", "n", "a", "l", "y", "s", "i", "s">>,
      <<"p", "r", "i", "c", "e">>,
      <<"v", "a", "l", "u", "a", "t", "i", "o", "n">>>>

\* Where the candidate starts when \b(verb)\s+([a-z]+)\b matches at i with
\* the given verb.
VerbCandidateStart(s, i, verb) == RunEnd(s, i + Len(verb), Spaces) + 1

\* \b(analy[sz]e|...)\s+([a-z]+)\b matches at position i.
VerbMatchAt(s, i) ==
    /\ Boundary(s, i)
    /\ \E v \in 1..Len(Verbs) :
           /\ LitAt(s, i, Verbs[v])
           /\ LET w == VerbCandidateStart(s, i, Verbs[v])
                  e == RunEnd(s, w, Letters)
              IN  /\ w > i + Len(Verbs[v])
                  /\ e >= w
                  /\ Boundary(s, e + 1)

\* Its group 2.
VerbGroup(s, i) ==
    LET v == CHOOSE v \in 1..Len(Verbs) :
                 /\ LitAt(s, i, Verbs[v])
                 /\ \A u \in 1..(v - 1) : ~LitAt(s, i, Verbs[u])
        w == VerbCandidateStart(s, i, Verbs[v])
    IN  SubSeq(s, w, RunEnd(s, w, Letters))

\* \b([a-z]+)\s+(stock|analysis|price|valuation)\b matches at position i.
NounMatchAt(s, i) ==
    /\ Boundary(s, i)
    /\ IsLetter(At(s, i))
    /\ LET e == RunEnd(s, i, Letters)
           k == RunEnd(s, e + 1, Spaces) + 1
       IN  /\ k > e + 1
           /\ \E n \in 1..Len(Nouns) :
                  LitAt(s, k, Nouns[n]) /\ Boundary(s, k + Len(Nouns[n]))

\* Its group 1.
NounGroup(s, i) == SubSeq(s, i, RunEnd(s, i, Letters))

\* \$([A-Z]{1,5})\b matches at position i.
DollarMatchAt(s, i) ==
    /\ At(s, i) = "$"
    /\ LET e == RunEnd(s, i + 1, Letters)
       IN  e - i \in 1..5 /\ Boundary(s, e + 1)

\* Its group 1.
DollarGroup(s, i) == SubSeq(s, i + 1, RunEnd(s, i + 1, Letters))

\* match.group(group_idx) of re.search(pattern, s, re.IGNORECASE) for the
\* k-th entry of natural_stock_patterns, or None when there is no match.
StockSearch(k, s) ==
    LET hits == {i \in 1..Len(s) :
                    CASE k = 1 -> VerbMatchAt(s, i)
                      [] k = 2 -> NounMatchAt(s, i)
                      [] k = 3 -> DollarMatchAt(s, i)}
    IN  IF hits = {} THEN None
        ELSE CASE k = 1 -> VerbGroup(s, Leftmost(hits))
               [] k = 2 -> NounGroup(s, Leftmost(hits))
               [] k = 3 -> DollarGroup(s, Leftmost(hits))

\* `match.group(group_idx).lower().strip()` without the lower().
potential_stock_as_typed(group) == strip(group)

\* `match.group(group_idx).lower().strip()`
potential_stock(group) == strip(lower(group))

\* sub in s
Contains(sub, s) ==
    \E i \in 1..(Len(s) - Len(sub) + 1) : SubSeq(s, i, i + Len(sub) - 1) = sub

\* re.search(r'\b(a|b|...)\b', s) is not None, for the alternatives alts.
WordSearch(alts, s) ==
    \E i \in 1..Len(s) : \E a \in 1..Len(alts) :
        /\ Boundary(s, i)
        /\ LitAt(s, i, alts[a])
        /\ Boundary(s, i + Len(alts[a]))

\* re.search(pattern, s, re.IGNORECASE) is not None, for a stored pattern
\* that is a literal text or "^" and a literal text.  Stored regular
\* expressions are taken to be well-formed and of these two forms.
RegexSearch(pattern, s) ==
    IF pattern # <<>> /\ pattern[1] = "^"
    THEN LitAt(s, 1, Tail(pattern))
    ELSE \E i \in 1..(Len(s) - Len(pattern) + 1) : LitAt(s, i, pattern)

-----------------------------------------------------------------------------
(* _check_pattern_responses *)

\* The cross mark the router takes a failure message to begin with.
CrossMark == <<"U+274C">>

\* Common stock names to ticker mapping.
stock_names ==
    (<<"a", "p", "p", "l", "e">> :> <<"A", "A", "P", "L">>) @@
    (<<"t", "e", "s", "l", "a">> :> <<"T", "S", "L", "A">>) @@
    (<<"m", "i", "c", "r", "o", "s", "o", "f", "t">> :> <<"M", "S", "F", "T">>) @@
    (<<"g", "o", "o", "g", "l", "e">> :> <<"G", "O", "O", "G", "L">>) @@
    (<<"a", "m", "a", "z", "o", "n">> :> <<"A", "M", "Z", "N">>) @@
    (<<"m", "e", "t", "a">> :> <<"M", "E", "T", "A">>) @@
    (<<"f", "a", "c", "e", "b", "o", "o", "k">> :> <<"M", "E", "T", "A">>) @@
    (<<"n", "v", "i", "d", "i", "a">> :> <<"N", "V", "D", "A">>) @@
    (<<"a", "m", "d">> :> <<"A", "M", "D">>) @@
    (<<"i", "n", "t", "e", "l">> :> <<"I", "N", "T", "C">>) @@
    (<<"n", "e", "t", "f", "l", "i", "x">> :> <<"N", "F", "L", "X">>) @@
    (<<"d", "i", "s", "n", "e", "y">> :> <<"D", "I", "S">>) @@
    (<<"w", "a", "l", "m", "a", "r", "t">> :> <<"W", "M", "T">>) @@
    (<<"c", "o", "c", "a", "-", "c", "o", "l", "a">> :> <<"K", "O">>) @@
    (<<"p", "e", "p", "s", "i">> :> <<"P", "E", "P">>) @@
    (<<"n", "i", "k", "e">> :> <<"N", "K", "E">>) @@
    (<<"m", "c", "d", "o", "n", "a", "l", "d", "s">> :> <<"M", "C", "D">>) @@
    (<<"b", "o", "e", "i", "n", "g">> :> <<"B", "A">>) @@
    (<<"v", "i", "s", "a">> :> <<"V">>) @@
    (<<"m", "a", "s", "t", "e", "r", "c", "a", "r", "d">> :> <<"M", "A">>) @@
    (<<"p", "a", "y", "p", "a", "l">> :> <<"P", "Y", "P", "L">>) @@
    (<<"u", "b", "e", "r">> :> <<"U", "B", "E", "R">>) @@
    (<<"l", "y", "f", "t">> :> <<"L", "Y", "F", "T">>) @@
    (<<"a", "i", "r", "b", "n", "b">> :> <<"A", "B", "N", "B">>) @@
    (<<"s", "p", "o", "t", "i", "f", "y">> :> <<"S", "P", "O", "T">>) @@
    (<<"z", "o", "o", "m">> :> <<"Z", "M">>) @@
    (<<"s", "a", "l", "e", "s", "f", "o", "r", "c", "e">> :> <<"C", "R", "M">>) @@
    (<<"o", "r", "a", "c", "l", "e">> :> <<"O", "R", "C", "L">>) @@
    (<<"i", "b", "m">> :> <<"I", "B", "M">>) @@
    (<<"c", "i", "s", "c", "o">> :> <<"C", "S", "C", "O">>) @@
    (<<"a", "d", "o", "b", "e">> :> <<"A", "D", "B", "E">>) @@
    (<<"s", "h", "o", "p", "i", "f", "y">> :> <<"S", "H", "O", "P">>) @@
    (<<"s", "q">> :> <<"S", "Q">>) @@
    (<<"s", "q", "u", "a", "r", "e">> :> <<"S", "Q">>) @@
    (<<"t", "w", "i", "t", "t", "e", "r">> :> <<"X">>) @@
    (<<"s", "n", "a", "p">> :> <<"S", "N", "A", "P">>) @@
    (<<"p", "i", "n", "t", "e", "r", "e", "s", "t">> :> <<"P", "I", "N", "S">>) @@
    (<<"r", "e", "d", "d", "i", "t">> :> <<"R", "D", "D", "T">>) @@
    (<<"c", "o", "i", "n", "b", "a", "s", "e">> :> <<"C", "O", "I", "N">>)

\* The messages routed: those of test_chat.py and others.
Messages == {
    \* "Hello"
     <<"H", "e", "l", "l", "o">>,
    \* "Give me analysis on Tesla"
     <<"G", "i", "v", "e", " ", "m", "e", " ", "a", "n", "a", "l", "y", "s",
       "i", "s", " ", "o", "n", " ", "T", "e", "s", "l", "a">>,
    \* "What about Apple stock?"
     <<"W", "h", "a", "t", " ", "a", "b", "o", "u", "t", " ", "A", "p", "p",
       "l", "e", " ", "s", "t", "o", "c", "k", "?">>,
    \* "analyze Microsoft"
     <<"a", "n", "a", "l", "y", "z", "e", " ", "M", "i", "c", "r", "o", "s",
       "o", "f", "t">>,
    \* "How is Netflix doing?"
     <<"H", "o", "w", " ", "i", "s", " ", "N", "e", "t", "f", "l", "i", "x",
       " ", "d", "o", "i", "n", "g", "?">>,
    \* "$GOOGL"
     <<"$", "G", "O", "O", "G", "L">>,
    \* "What's the weather like?"
     <<"W", "h", "a", "t", "'", "s", " ", "t", "h", "e", " ", "w", "e", "a",
       "t", "h", "e", "r", " ", "l", "i", "k", "e", "?">>,
    \* "Tell me a joke"
     <<"T", "e", "l", "l", " ", "m", "e", " ", "a", " ", "j", "o", "k", "e">>,
    \* "analyze NVDA"
     <<"a", "n", "a", "l", "y", "z", "e", " ", "N", "V", "D", "A">>,
    \* "Can you help me with my homework?"
     <<"C", "a", "n", " ", "y", "o", "u", " ", "h", "e", "l", "p", " ", "m",
       "e", " ", "w", "i", "t", "h", " ", "m", "y", " ", "h", "o", "m", "e",
       "w", "o", "r", "k", "?">>,
    \* "analyze Tesla"
     <<"a", "n", "a", "l", "y", "z", "e", " ", "T", "e", "s", "l", "a">>,
    \* "$AAPL"
     <<"$", "A", "A", "P", "L">>,
    \* "$V"
     <<"$", "V">>,
    \* "$ZOOM"
     <<"$", "Z", "O", "O", "M">>,
    \* "analyze the stock"
     <<"a", "n", "a", "l", "y", "z", "e", " ", "t", "h", "e", " ", "s", "t",
       "o", "c", "k">>,
    \* "hello tesla price"
     <<"h", "e", "l", "l", "o", " ", "t", "e", "s", "l", "a", " ", "p", "r",
       "i", "c", "e">>,
    \* "hello check x"
     <<"h", "e", "l", "l", "o", " ", "c", "h", "e", "c", "k", " ", "x">>,
    \* "thanks"
     <<"t", "h", "a", "n", "k", "s">>,
    \* "  HELP  "
     <<" ", " ", "H", "E", "L", "P", " ", " ">>,
    \* "hello help"
     <<"h", "e", "l", "l", "o", " ", "h", "e", "l", "p">>,
    \* "oh hello"
     <<"o", "h", " ", "h", "e", "l", "l", "o">>,
    \* "check international"
     <<"c", "h", "e", "c", "k", " ", "i", "n", "t", "e", "r", "n", "a", "t",
       "i", "o", "n", "a", "l">>,
    \* "what about nvda price or $aapl"
     <<"w", "h", "a", "t", " ", "a", "b", "o", "u", "t", " ", "n", "v", "d",
       "a", " ", "p", "r", "i", "c", "e", " ", "o", "r", " ", "$", "a", "a",
       "p", "l">>,
    \* "what can you do"
     <<"w", "h", "a", "t", " ", "c", "a", "n", " ", "y", "o", "u", " ", "d",
       "o">>,
    \* "see you"
     <<"s", "e", "e", " ", "y", "o", "u">>}

\* greeting_patterns: the alternatives of each key, and its response.
greeting_patterns ==
    <<[alts |-> <<<<"h", "i">>,
                  <<"h", "e", "l", "l", "o">>,
                  <<"h", "e", "y">>,
                  <<"g", "r", "e", "e", "t", "i", "n", "g", "s">>>>,
       response |-> <<"Hello! I'm your stock analysis bot. ...">>],
      [alts |-> <<<<"h", "e", "l", "p">>,
                  <<"a", "s", "s", "i", "s", "t">>,
                  <<"s", "u", "p", "p", "o", "r", "t">>>>,
       response |-> <<"I'm a stock analysis bot! I can: ...">>],
      [alts |-> <<<<"t", "h", "a", "n", "k", "s">>,
                  <<"t", "h", "a", "n", "k", " ", "y", "o", "u">>,
                  <<"t", "h", "x">>>>,
       response |-> <<"You're welcome! ...">>],
      [alts |-> <<<<"b", "y", "e">>,
                  <<"g", "o", "o", "d", "b", "y", "e">>,
                  <<"s", "e", "e", " ", "y", "o", "u">>>>,
       response |-> <<"Goodbye! Happy investing! ...">>],
      [alts |-> <<<<"w", "h", "a", "t", " ", "c", "a", "n", " ", "y", "o", "u", " ", "d", "o">>,
                  <<"w", "h", "a", "t", " ", "d", "o", " ", "y", "o", "u", " ", "d", "o">>>>,
       response |-> <<"I'm a specialized stock analysis bot! I can analyze stocks and provide: ...">>]>>

\* With None returned when nothing matched.
StockOnlyMessageAbsent == <<>>

\* The stock-only message of the last line.
StockOnlyMessage == <<"I'm a specialized stock analysis bot. ...">>

\* The BotResponse rows of the table: a literal pattern, another, and a
\* regular expression, with the use counts they start with.
Triggers ==
    <<[trigger_pattern |-> <<"h", "e", "l", "l", "o">>, is_regex |-> FALSE,
       response_text |-> <<"Hello from the team.">>, use_count |-> 0],
      [trigger_pattern |-> <<"h", "e", "l", "p">>, is_regex |-> FALSE,
       response_text |-> <<"Write to the help desk.">>, use_count |-> 3],
      [trigger_pattern |-> <<"^", "h", "e", "l">>, is_regex |-> TRUE,
       response_text |-> <<"Starts with hel.">>, use_count |-> 7]>>

Priorities == {5, 10}

\* Every table of these rows: each row active or not, with either priority.
BotResponseTables ==
    {[pk \in 1..Len(Triggers) |->
        [trigger_pattern |-> Triggers[pk].trigger_pattern,
         response_text   |-> Triggers[pk].response_text,
         is_regex        |-> Triggers[pk].is_regex,
         is_active       |-> active[pk],
         priority        |-> priority[pk],
         use_count       |-> Triggers[pk].use_count]] :
        active \in [1..Len(Triggers) -> BOOLEAN],
        priority \in [1..Len(Triggers) -> Priorities]}

\* The characters of the stored patterns, in the order of their codes.
CodeOrder == <<"(", "^", "_">> \o LowerCase

CharCode(c) == CHOOSE i \in 1..Len(CodeOrder) : CodeOrder[i] = c

\* a < b for two texts, in the database's ORDER BY of a text column.
RECURSIVE TextBefore(_, _)
TextBefore(a, b) ==
    IF b = <<>> THEN FALSE
    ELSE IF a = <<>> THEN TRUE
    ELSE IF a[1] # b[1] THEN CharCode(a[1]) < CharCode(b[1])
    ELSE TextBefore(Tail(a), Tail(b))

\* Before with the priority ascending.
BeforeLowestFirst(a, b) ==
    \/ a.priority < b.priority
    \/ a.priority = b.priority /\ TextBefore(a.trigger_pattern, b.trigger_pattern)

\* Row a comes before row b under Meta.ordering = ['-priority',
\* 'trigger_pattern'].
Before(a, b) ==
    \/ a.priority > b.priority
    \/ a.priority = b.priority /\ TextBefore(a.trigger_pattern, b.trigger_pattern)

\* The primary keys of a set of rows of the table, in Meta.ordering.
RECURSIVE Ordered(_, _)
Ordered(table, pks) ==
    IF pks = {} THEN <<>>
    ELSE LET first == CHOOSE p \in pks :
                          \A q \in pks \ {p} : Before(table[p], table[q])
         IN  <<first>> \o Ordered(table, pks \ {first})

\* BotResponse.objects.filter(is_active=True)
active_responses(table) ==
    Ordered(table, {pk \in DOMAIN table : table[pk].is_active})

\* The test of the loop over active_responses for one row.
TriggerMatches(bot_response, message_lower) ==
    IF bot_response.is_regex
    THEN RegexSearch(bot_response.trigger_pattern, message_lower)
    ELSE Contains(lower(bot_response.trigger_pattern), message_lower)

\* The positions in active_responses of the rows whose test succeeds.
CustomHits(table, message_lower) ==
    {i \in 1..Len(active_responses(table)) :
        TriggerMatches(table[active_responses(table)[i]], message_lower)}

\* The positions in greeting_patterns of the patterns found.
GreetingHits(message_lower) ==
    {g \in 1..Len(greeting_patterns) :
        WordSearch(greeting_patterns[g].alts, message_lower)}

\* `message_lower = message.lower().strip()`
MessageLower == strip(lower(message))

\* The candidate of the pattern the loop is at, or None without a match.
Candidate(k) ==
    IF StockSearch(k, message) = None THEN None
    ELSE potential_stock(StockSearch(k, message))

\* With one character enough for a ticker.
TickerLengthFromOne(c) == Len(c) >= 1 /\ Len(c) <= 5

\* `len(potential_stock) >= 2 and len(potential_stock) <= 5`
TickerLength(c) == Len(c) >= 2 /\ Len(c) <= 5

\* The loop over natural_stock_patterns goes to its next entry, or ends.
NextPattern ==
    IF pattern_idx < 3
    THEN pattern_idx' = pattern_idx + 1 /\ rpc' = "stock"
    ELSE pattern_idx' = pattern_idx /\ rpc' = "custom"

\* stock_analyzer.analyze_stock(sym) is entered.
EnterAnalyzeStock(sym) ==
    /\ symbol' = sym
    /\ pc' = "idle"
    /\ data' = None
    /\ valuation' = None
    /\ signals' = <<>>
    /\ upside_estimates' = <<>>
    /\ verdict' = None
    /\ reply' = None

\* The analyze_stock call that has returned, as the router saw it.
Dispatch(via) ==
    [pattern |-> pattern_idx, via |-> via, symbol |-> symbol, reply |-> reply]

\* The pattern does not match, or its candidate is neither a known name nor
\* of 2 to 5 characters.
NoStockCandidate ==
    /\ rpc = "stock"
    /\ \/ Candidate(pattern_idx) = None
       \/ /\ Candidate(pattern_idx) \notin DOMAIN stock_names
          /\ ~TickerLength(Candidate(pattern_idx))
    /\ NextPattern
    /\ UNCHANGED serverVars
    /\ UNCHANGED <<pc, openai_client, data, valuation, signals,
                   upside_estimates, verdict, reply, callVars, histVars,
                   message, bot_responses, response, dispatched>>

\* `if potential_stock in stock_names`: analyze_stock(stock_names[...]).
DispatchByName ==
    /\ rpc = "stock"
    /\ Candidate(pattern_idx) # None
    /\ Candidate(pattern_idx) \in DOMAIN stock_names
    /\ EnterAnalyzeStock(stock_names[Candidate(pattern_idx)])
    /\ rpc' = "analyzing_name"
    /\ UNCHANGED serverVars
    /\ UNCHANGED <<openai_client, provider_calls, openai_calls, histVars,
                   message, pattern_idx, bot_responses, response, dispatched>>

\* `return stock_analyzer.analyze_stock(symbol)`, whatever it returned.
ReturnNameAnalysis ==
    /\ rpc = "analyzing_name"
    /\ pc = "done"
    /\ response' = reply.text
    /\ dispatched' = Append(dispatched, Dispatch("name"))
    /\ rpc' = "returned_name"
    /\ UNCHANGED serverVars
    /\ UNCHANGED <<pc, openai_client, data, valuation, signals,
                   upside_estimates, verdict, reply, callVars, histVars,
                   message, pattern_idx, bot_responses>>

\* `if len(potential_stock) >= 2 and ...`: analyze_stock(potential_stock
\* .upper()).
DispatchDirect ==
    /\ rpc = "stock"
    /\ Candidate(pattern_idx) # None
    /\ Candidate(pattern_idx) \notin DOMAIN stock_names
    /\ TickerLength(Candidate(pattern_idx))
    /\ EnterAnalyzeStock(upper(Candidate(pattern_idx)))
    /\ rpc' = "analyzing_direct"
    /\ UNCHANGED serverVars
    /\ UNCHANGED <<openai_client, provider_calls, openai_calls, histVars,
                   message, pattern_idx, bot_responses, response, dispatched>>

\* `if not result.startswith(cross mark): return result`
ReturnDirectAnalysis ==
    /\ rpc = "analyzing_direct"
    /\ pc = "done"
    /\ ~startswith(reply.text, CrossMark)
    /\ response' = reply.text
    /\ dispatched' = Append(dispatched, Dispatch("direct"))
    /\ rpc' = "returned_direct"
    /\ UNCHANGED serverVars
    /\ UNCHANGED <<pc, openai_client, data, valuation, signals,
                   upside_estimates, verdict, reply, callVars, histVars,
                   message, pattern_idx, bot_responses>>

\* The result begins with the cross mark: the loop goes on.
SkipFailedAnalysis ==
    /\ rpc = "analyzing_direct"
    /\ pc = "done"
    /\ startswith(reply.text, CrossMark)
    /\ dispatched' = Append(dispatched, Dispatch("direct"))
    /\ NextPattern
    /\ UNCHANGED serverVars
    /\ UNCHANGED <<pc, openai_client, data, valuation, signals,
                   upside_estimates, verdict, reply, callVars, histVars,
                   message, bot_responses, response>>

\* The first row of active_responses whose test succeeds: its use_count is
\* incremented and saved, its response_text returned.
CustomPattern ==
    /\ rpc = "custom"
    /\ CustomHits(bot_responses, MessageLower) # {}
    /\ LET pk == active_responses(bot_responses)[
                     Leftmost(CustomHits(bot_responses, MessageLower))]
       IN  /\ bot_responses' =
                  [bot_responses EXCEPT ![pk].use_count = @ + 1]
           /\ response' = bot_responses[pk].response_text
    /\ rpc' = "returned_custom"
    /\ UNCHANGED serverVars
    /\ UNCHANGED <<pc, openai_client, data, valuation, signals,
                   upside_estimates, verdict, reply, callVars, histVars,
                   message, pattern_idx, dispatched>>

\* No row's test succeeds: the first greeting pattern found gives the
\* response.
GreetingPattern ==
    /\ rpc = "custom"
    /\ CustomHits(bot_responses, MessageLower) = {}
    /\ GreetingHits(MessageLower) # {}
    /\ response' =
           greeting_patterns[Leftmost(GreetingHits(MessageLower))].response
    /\ rpc' = "returned_greeting"
    /\ UNCHANGED serverVars
    /\ UNCHANGED <<pc, openai_client, data, valuation, signals,
                   upside_estimates, verdict, reply, callVars, histVars,
                   message, pattern_idx, bot_responses, dispatched>>

\* Nothing matched: the stock-only message.
StockOnly ==
    /\ rpc = "custom"
    /\ CustomHits(bot_responses, MessageLower) = {}
    /\ GreetingHits(MessageLower) = {}
    /\ response' = StockOnlyMessage
    /\ rpc' = "returned_fallback"
    /\ UNCHANGED serverVars
    /\ UNCHANGED <<pc, openai_client, data, valuation, signals,
                   upside_estimates, verdict, reply, callVars, histVars,
                   message, pattern_idx, bot_responses, dispatched>>

\* One call of _check_pattern_responses is followed, on any of the messages
\* and any of the tables.
InitRoute ==
    /\ NoServer
    /\ pc = "not_called"
    /\ openai_client \in {None, Str("client")}
    /\ NotStarted
    /\ symbol = None
    /\ provider_calls = <<>>
    /\ openai_calls = <<>>
    /\ NoHistory
    /\ rpc = "stock"
    /\ message \in Messages
    /\ pattern_idx = 1
    /\ bot_responses \in BotResponseTables
    /\ response = None
    /\ dispatched = <<>>

NextRoute ==
    \/ NoStockCandidate
    \/ DispatchByName
    \/ DispatchDirect
    \/ AnalyzeStock
    \/ ReturnNameAnalysis
    \/ ReturnDirectAnalysis
    \/ SkipFailedAnalysis
    \/ CustomPattern
    \/ GreetingPattern
    \/ StockOnly

SpecRoute == InitRoute /\ [][NextRoute]_vars

-----------------------------------------------------------------------------
(* The HTTP endpoint of chatbot/views.py and process_message of             *)
(* chatbot/agent.py, for requests that are served at the same time.  A      *)
(* JSON value is a record that carries its type.                            *)

JNull == [type |-> "null"]
JStr(chars) == [type |-> "str", value |-> chars]
JList(elems) == [type |-> "list", elems |-> elems]
JDict(items) == [type |-> "dict", items |-> items]

\* isinstance(v, dict), isinstance(v, str)
isinstance_dict(v) == v.type = "dict"
isinstance_str(v) == v.type = "str"

\* `k in d` and d.get(k, default) for a dict d.
In(k, d) == k \in DOMAIN d.items
get(d, k, default) == IF In(k, d) THEN d.items[k] ELSE default

\* v == text, for a JSON value v.
IsText(v, text) == v.type = "str" /\ v.value = text

\* The Python value of a JSON value the code passes on as it is: the text
\* of a string, None for null or for a key that is not there.
PyValue(v) == IF v.type = "str" THEN v.value ELSE None

\* str(uuid.uuid4()) in the request p: a text no other request holds.
uuid4(p) == <<"u", "u", "i", "d", "4", "-", Digits[p + 1]>>

\* `a or b` for a JSON value a and a text b.
OrText(a, b) == IF PyValue(a) # None THEN PyValue(a) ELSE b

\* An HTTP response: its status, the JSON-RPC id and error code of its body
\* (None when the body has none; a code is written <<code>>) and the reply
\* text of a result.
HttpResponse(status, id, code, text) ==
    [status |-> status, id |-> id, code |-> code, text |-> text]

\* What the view hands to agent.process_message.
ProcessMessageCall(id, user_message, conversation_id, user_id, channel_id) ==
    [accepted |-> TRUE, id |-> id, user_message |-> user_message,
     conversation_id |-> conversation_id, user_id |-> user_id,
     channel_id |-> channel_id, http |-> None]

\* The view returns without calling the agent.
Rejected(http) ==
    [accepted |-> FALSE, id |-> http.id, user_message |-> None,
     conversation_id |-> None, user_id |-> None, channel_id |-> None,
     http |-> http]

\* `parts` of _handle_jsonrpc_request.
MessageParts(params) ==
    IF isinstance_dict(get(params, "message", JDict(<<>>)))
    THEN get(get(params, "message", JDict(<<>>)), "parts", JList(<<>>))
    ELSE JList(<<>>)

\* `message_data` of _handle_jsonrpc_request.
MessageData(params) ==
    IF isinstance_dict(get(params, "message", JDict(<<>>)))
    THEN get(params, "message", JDict(<<>>))
    ELSE JDict(<<>>)

\* `user_message` of _handle_jsonrpc_request: params['message'] when it is a
\* string, else the text of the first part of kind 'text'.
UserMessage(params) ==
    IF In("message", params) /\ isinstance_str(params.items["message"])
    THEN params.items["message"].value
    ELSE LET parts == MessageParts(params).elems
             texts == {i \in 1..Len(parts) :
                          /\ isinstance_dict(parts[i])
                          /\ IsText(get(parts[i], "kind", JNull), Str("text"))}
         IN  IF texts = {} THEN <<>>
             ELSE PyValue(get(parts[Leftmost(texts)], "text", JStr(<<>>)))

\* With the check of the request's id left out.
_handle_jsonrpc_request_unvalidated(body, p) ==
    LET params == get(body, "params", JDict(<<>>))
    IN  ProcessMessageCall(PyValue(get(body, "id", JNull)),
                           UserMessage(params),
                           OrText(get(params, "contextId", JNull), uuid4(p)),
                           PyValue(get(MessageData(params), "userId", JNull)),
                           PyValue(get(MessageData(params), "channelId", JNull)))

\* A2AAgentView._handle_jsonrpc_request up to the call of process_message,
\* in the request p.
_handle_jsonrpc_request(body, p) ==
    LET request_id == PyValue(get(body, "id", JNull))
        params == get(body, "params", JDict(<<>>))
    IN  IF ~In("id", body)
        THEN Rejected(HttpResponse(400, None, <<-32600>>, None))
        ELSE IF ~isinstance_dict(params)
        THEN Rejected(HttpResponse(400, request_id, <<-32602>>, None))
        ELSE IF UserMessage(params) = <<>>
        THEN Rejected(HttpResponse(400, request_id, <<-32602>>, None))
        ELSE ProcessMessageCall(
                 request_id,
                 UserMessage(params),
                 OrText(get(params, "contextId", JNull), uuid4(p)),
                 PyValue(get(MessageData(params), "userId", JNull)),
                 PyValue(get(MessageData(params), "channelId", JNull)))

\* A2ARequestSerializer.is_valid(): `message` is required and not blank.
SerializerIsValid(body) ==
    /\ In("message", body)
    /\ isinstance_str(body.items["message"])
    /\ strip(body.items["message"].value) # <<>>

\* A2AAgentView._handle_simple_request up to the call of process_message.
_handle_simple_request(body, p) ==
    IF ~SerializerIsValid(body)
    THEN Rejected(HttpResponse(400, None, None, None))
    ELSE ProcessMessageCall(
             None,
             strip(body.items["message"].value),
             OrText(get(body, "conversation_id", JNull), uuid4(p)),
             PyValue(get(body, "user_id", JNull)),
             PyValue(get(body, "channel_id", JNull)))

\* A2AAgentView.post: the format of the body chooses the handler.
post(body, p) ==
    IF IsText(get(body, "jsonrpc", JNull), Str("2.0"))
    THEN _handle_jsonrpc_request(body, p)
    ELSE _handle_simple_request(body, p)

\* The request bodies that are posted.  Three JSON-RPC bodies fail the
\* validation (no id; params that is a list; no text part), four are
\* served, and of the two bodies of the simplified format one is served.
Bodies ==
    <<JDict([jsonrpc |-> JStr(Str("2.0")),
             params |-> JDict([message |-> JStr(<<"H", "e", "l", "l", "o">>),
                               contextId |-> JStr(<<"c", "1">>)])]),
      JDict([jsonrpc |-> JStr(Str("2.0")), id |-> JStr(<<"r", "2">>),
             params |-> JList(<<JStr(<<"H", "e", "l", "l", "o">>)>>)]),
      JDict([jsonrpc |-> JStr(Str("2.0")), id |-> JStr(<<"r", "3">>),
             params |-> JDict([message |->
                                   JDict([parts |-> JList(<<
                                       JDict([kind |-> JStr(Str("file"))])>>),
                                          userId |-> JStr(<<"u", "3">>)]),
                               contextId |-> JStr(<<"c", "1">>)])]),
      JDict([jsonrpc |-> JStr(Str("2.0")), id |-> JStr(<<"r", "4">>),
             params |-> JDict([message |-> JStr(<<"H", "e", "l", "l", "o">>),
                               contextId |-> JStr(<<"c", "1">>)])]),
      JDict([jsonrpc |-> JStr(Str("2.0")), id |-> JStr(<<"r", "5">>),
             params |-> JDict([message |->
                                   JDict([parts |-> JList(<<
                                       JDict([kind |-> JStr(Str("text")),
                                              text |-> JStr(<<" ", " ", "H",
                                                  "E", "L", "P", " ", " ">>)])
                                       >>),
                                          userId |-> JStr(<<"u", "1">>),
                                          channelId |-> JStr(<<"k", "1">>)]),
                               contextId |-> JStr(<<"c", "1">>)])]),
      JDict([jsonrpc |-> JStr(Str("2.0")), id |-> JStr(<<"r", "6">>),
             params |-> JDict([message |->
                                   JDict([parts |-> JList(<<
                                       JDict([kind |-> JStr(Str("file"))]),
                                       JDict([kind |-> JStr(Str("text")),
                                              text |-> JStr(<<"$", "A", "A",
                                                              "P", "L">>)])
                                       >>),
                                          userId |-> JStr(<<"u", "2">>),
                                          channelId |-> JStr(<<"k", "2">>)]),
                               contextId |-> JStr(<<"c", "1">>)])]),
      JDict([jsonrpc |-> JStr(Str("2.0")), id |-> JNull,
             params |-> JDict([message |-> JStr(<<"t", "h", "a", "n", "k",
                                                  "s">>)])]),
      JDict([message |-> JStr(<<"W", "h", "a", "t", "'", "s", " ", "t", "h",
                                "e", " ", "w", "e", "a", "t", "h", "e", "r",
                                " ", "l", "i", "k", "e", "?">>),
             conversation_id |-> JStr(<<"c", "2">>),
             user_id |-> JStr(<<"u", "1">>)]),
      JDict([conversation_id |-> JStr(<<"c", "2">>)])>>

\* How many requests are served at the same time.
NumRequests == 2

Procs == 1..NumRequests

\* The locals of a request that has just arrived.
NewRequest(body) ==
    [body |-> body, pc |-> "received", id |-> None, user_message |-> None,
     conversation_id |-> None, user_id |-> None, channel_id |-> None,
     pipeline_replies |-> <<>>, active_responses |-> <<>>,
     bot_response |-> None, response_text |-> None, generator |-> "",
     http |-> None]

\* The rows of the BotResponse table the requests are served with: a
\* literal pattern, a second one whose response text is empty in some
\* tables, and a regular expression that does not compile, active in some.
ServerTriggers(help_text, broken_active) ==
    <<[trigger_pattern |-> <<"h", "e", "l", "l", "o">>, is_regex |-> FALSE,
       response_text |-> <<"Hello from the team.">>, is_active |-> TRUE,
       priority |-> 10, use_count |-> 0],
      [trigger_pattern |-> <<"h", "e", "l", "p">>, is_regex |-> FALSE,
       response_text |-> help_text, is_active |-> TRUE,
       priority |-> 5, use_count |-> 3],
      [trigger_pattern |-> <<"(">>, is_regex |-> TRUE,
       response_text |-> <<"Never sent.">>, is_active |-> broken_active,
       priority |-> 0, use_count |-> 0]>>

ServerTables ==
    {ServerTriggers(<<"Write to the help desk.">>, FALSE),
     ServerTriggers(<<>>, FALSE),
     ServerTriggers(<<"Write to the help desk.">>, TRUE)}

\* What analyze_stock returns to the router: a rendered analysis, prose of
\* the collaborator that begins with the cross mark, the message of a failed
\* fetch, and prose that is the empty string.
PipelineReplies ==
    {<<"*", "*", "BUY", "*", "*">>, <<"U+274C", " ", "S", "e", "l", "l">>,
     FailureMark \o <<" Unable to fetch data">>, <<>>}

\* The messages the bodies carry.
ServerMessages ==
    {post(Bodies[i], 1).user_message : i \in 1..Len(Bodies)} \ {None}

\* The candidate of the k-th entry of natural_stock_patterns in the message
\* m, or None without a match.
StockCandidate ==
    [m \in ServerMessages |->
        [k \in 1..3 |->
            IF StockSearch(k, m) = None THEN None
            ELSE potential_stock(StockSearch(k, m))]]

\* The entries of natural_stock_patterns whose candidate in the message m
\* is a known name or of 2 to 5 characters.
Dispatchable(m) ==
    {k \in 1..3 :
        /\ StockCandidate[m][k] # None
        /\ \/ StockCandidate[m][k] \in DOMAIN stock_names
           \/ TickerLength(StockCandidate[m][k])}

\* The loop over natural_stock_patterns from its k-th entry on, analyze_stock
\* returning r[k] to the k-th entry: whether the loop returns, what, and the
\* tickers the provider was asked for, with what analyze_stock returned.
RECURSIVE StockLoop(_, _, _)
StockLoop(m, r, k) ==
    IF k > 3
    THEN [returned |-> FALSE, text |-> None, symbols |-> <<>>,
          replies |-> <<>>]
    ELSE IF StockCandidate[m][k] = None THEN StockLoop(m, r, k + 1)
    ELSE IF StockCandidate[m][k] \in DOMAIN stock_names
    THEN [returned |-> TRUE, text |-> r[k],
          symbols |-> <<stock_names[StockCandidate[m][k]]>>,
          replies |-> <<r[k]>>]
    ELSE IF ~TickerLength(StockCandidate[m][k]) THEN StockLoop(m, r, k + 1)
    ELSE IF ~startswith(r[k], CrossMark)
    THEN [returned |-> TRUE, text |-> r[k],
          symbols |-> <<upper(StockCandidate[m][k])>>,
          replies |-> <<r[k]>>]
    ELSE [StockLoop(m, r, k + 1) EXCEPT
              !.symbols = <<upper(StockCandidate[m][k])>> \o @,
              !.replies = <<r[k]>> \o @]

\* re.search raises re.error for a pattern that does not compile: one with
\* a parenthesis that is not closed.
RegexRaises(pattern) ==
    Cardinality({i \in 1..Len(pattern) : pattern[i] = "("}) #
        Cardinality({i \in 1..Len(pattern) : pattern[i] = ")"})

\* The test of the loop over active_responses raises for the row.
TriggerRaises(bot_response) ==
    bot_response.is_regex /\ RegexRaises(bot_response.trigger_pattern)

\* The positions in the rows that were read of those at which the loop
\* stops: the test succeeds or raises.
LoopStops(rows, message_lower) ==
    {i \in 1..Len(rows) :
        \/ TriggerRaises(rows[i])
        \/ TriggerMatches(rows[i], message_lower)}

\* The text of _get_default_response.
DefaultResponse ==
    <<"I'm a specialized stock analysis bot. ... Or use any stock ticker like $AAPL">>

\* What _generate_ai_response returns: the collaborator's prose, stripped,
\* or the default response when the call raises.
AIResponses == {<<"Happy to help.">>, DefaultResponse}

\* A row of the Conversation table.
ConversationRow(conversation_id, user_id, channel_id) ==
    [conversation_id |-> conversation_id, user_id |-> user_id,
     channel_id |-> channel_id]

\* With every message stored as a bot message.
MessageRowAlwaysBot(conversation_id, message_type, content, method) ==
    [conversation |-> conversation_id, message_type |-> "bot",
     content |-> content, method |-> method]

\* A row of the Message table; `method` is what its metadata holds under
\* 'method' (None for a user message).
MessageRow(conversation_id, message_type, content, method) ==
    [conversation |-> conversation_id, message_type |-> message_type,
     content |-> content, method |-> method]

\* The rows of this Conversation table with this conversation_id.
ConversationsOf(table, conversation_id) ==
    {i \in 1..Len(table) : table[i].conversation_id = conversation_id}

\* With the stored row overwritten by the caller's values.
get_or_create_overwriting(table, conversation_id, user_id, channel_id) ==
    [i \in 1..Len(table) |->
        IF table[i].conversation_id = conversation_id
        THEN ConversationRow(conversation_id, user_id, channel_id)
        ELSE table[i]]
    \o IF \E i \in 1..Len(table) : table[i].conversation_id = conversation_id
       THEN <<>>
       ELSE <<ConversationRow(conversation_id, user_id, channel_id)>>

\* Conversation.objects.get_or_create(conversation_id=..., defaults={...}):
\* the table afterwards.  The column is unique, so of two requests that
\* create the same conversation at once the database lets one insert and the
\* other then reads the row: the call acts as one step.
get_or_create(table, conversation_id, user_id, channel_id) ==
    IF \E i \in 1..Len(table) : table[i].conversation_id = conversation_id
    THEN table
    ELSE Append(table, ConversationRow(conversation_id, user_id, channel_id))

\* The variables of the single calls that the other specifications follow.
singleCallVars ==
    <<pc, openai_client, data, valuation, signals, upside_estimates, verdict,
      reply, symbol, openai_calls, histVars, rpc, message, pattern_idx,
      response, dispatched>>

\* `message_lower` of the request p.
MessageLowerOf(p) == strip(lower(requests[p].user_message))

\* post: the body fails the validation and the view answers at once.
RejectRequest(p) ==
    /\ requests[p].pc = "received"
    /\ ~post(requests[p].body, p).accepted
    /\ requests' = [requests EXCEPT
           ![p].http = post(requests[p].body, p).http,
           ![p].id = post(requests[p].body, p).id,
           ![p].pc = "done"]
    /\ UNCHANGED <<singleCallVars, provider_calls, bot_responses,
                   openai_enabled, conversations, stored_messages>>

\* post: the body passes and agent.process_message is called.
CallProcessMessage(p) ==
    /\ requests[p].pc = "received"
    /\ post(requests[p].body, p).accepted
    /\ requests' = [requests EXCEPT
           ![p].id = post(requests[p].body, p).id,
           ![p].user_message = post(requests[p].body, p).user_message,
           ![p].conversation_id = post(requests[p].body, p).conversation_id,
           ![p].user_id = post(requests[p].body, p).user_id,
           ![p].channel_id = post(requests[p].body, p).channel_id,
           ![p].pc = "get_or_create"]
    /\ UNCHANGED <<singleCallVars, provider_calls, bot_responses,
                   openai_enabled, conversations, stored_messages>>

\* process_message: `conversation = self._get_or_create_conversation(...)`
GetOrCreateConversation(p) ==
    /\ requests[p].pc = "get_or_create"
    /\ conversations' =
           get_or_create(conversations, requests[p].conversation_id,
                         requests[p].user_id, requests[p].channel_id)
    /\ requests' = [requests EXCEPT ![p].pc = "save_user"]
    /\ UNCHANGED <<singleCallVars, provider_calls, bot_responses,
                   openai_enabled, stored_messages>>

\* process_message: the user message is saved.
CreateUserMessage(p) ==
    /\ requests[p].pc = "save_user"
    /\ stored_messages' =
           Append(stored_messages,
                  MessageRow(requests[p].conversation_id, "user",
                             requests[p].user_message, None))
    /\ requests' = [requests EXCEPT ![p].pc = "stock"]
    /\ UNCHANGED <<singleCallVars, provider_calls, bot_responses,
                   openai_enabled, conversations>>

\* The provider calls of a run of the loop, for the request p.
ProviderCallsOf(p, loop) ==
    [i \in 1..Len(loop.symbols) |->
        [symbol |-> loop.symbols[i], request |-> p]]

\* _check_pattern_responses: the loop over natural_stock_patterns returns
\* what analyze_stock returned.
StockStageReturns(p) ==
    /\ requests[p].pc = "stock"
    /\ \E r \in [Dispatchable(requests[p].user_message) ->
                     PipelineReplies] :
           /\ StockLoop(requests[p].user_message, r, 1).returned
           /\ provider_calls' = provider_calls \o
                  ProviderCallsOf(p, StockLoop(requests[p].user_message, r, 1))
           /\ requests' = [requests EXCEPT
                  ![p].pipeline_replies =
                      StockLoop(requests[p].user_message, r, 1).replies,
                  ![p].response_text =
                      StockLoop(requests[p].user_message, r, 1).text,
                  ![p].pc = "generated"]
    /\ UNCHANGED <<singleCallVars, bot_responses, openai_enabled,
                   conversations, stored_messages>>

\* _check_pattern_responses: the loop ends without a return.
StockStageFallsThrough(p) ==
    /\ requests[p].pc = "stock"
    /\ \E r \in [Dispatchable(requests[p].user_message) ->
                     PipelineReplies] :
           /\ ~StockLoop(requests[p].user_message, r, 1).returned
           /\ provider_calls' = provider_calls \o
                  ProviderCallsOf(p, StockLoop(requests[p].user_message, r, 1))
           /\ requests' = [requests EXCEPT
                  ![p].pipeline_replies =
                      StockLoop(requests[p].user_message, r, 1).replies,
                  ![p].pc = "custom"]
    /\ UNCHANGED <<singleCallVars, bot_responses, openai_enabled,
                   conversations, stored_messages>>

\* `for bot_response in active_responses`: the query runs, and the request
\* holds the rows as they were read.
ReadActiveResponses(p) ==
    /\ requests[p].pc = "custom"
    /\ requests' = [requests EXCEPT
           ![p].active_responses =
               [i \in 1..Len(active_responses(bot_responses)) |->
                   [pk |-> active_responses(bot_responses)[i],
                    row |-> bot_responses[active_responses(bot_responses)[i]]]],
           ![p].pc = "loop"]
    /\ UNCHANGED <<singleCallVars, provider_calls, bot_responses,
                   openai_enabled, conversations, stored_messages>>

\* The rows of the request p as the loop tests them.
RowsOf(p) ==
    [i \in 1..Len(requests[p].active_responses) |->
        requests[p].active_responses[i].row]

\* `bot_response.use_count += 1` on the first row whose test succeeds: the
\* row that was read is changed in memory.
IncrementUseCount(p) ==
    /\ requests[p].pc = "loop"
    /\ LoopStops(RowsOf(p), MessageLowerOf(p)) # {}
    /\ ~TriggerRaises(RowsOf(p)[Leftmost(LoopStops(RowsOf(p),
                                                   MessageLowerOf(p)))])
    /\ LET hit == requests[p].active_responses[
                      Leftmost(LoopStops(RowsOf(p), MessageLowerOf(p)))]
       IN  requests' = [requests EXCEPT
               ![p].bot_response =
                   [pk |-> hit.pk,
                    row |-> [hit.row EXCEPT !.use_count = @ + 1]],
               ![p].pc = "save"]
    /\ UNCHANGED <<singleCallVars, provider_calls, bot_responses,
                   openai_enabled, conversations, stored_messages>>

\* The test of a row raises before any row's test succeeded: the exception
\* leaves process_message.
TriggerPatternRaises(p) ==
    /\ requests[p].pc = "loop"
    /\ LoopStops(RowsOf(p), MessageLowerOf(p)) # {}
    /\ TriggerRaises(RowsOf(p)[Leftmost(LoopStops(RowsOf(p),
                                                  MessageLowerOf(p)))])
    /\ requests' = [requests EXCEPT ![p].pc = "raised"]
    /\ UNCHANGED <<singleCallVars, provider_calls, bot_responses,
                   openai_enabled, conversations, stored_messages>>

\* `bot_response.save()`: every field of the row in memory is written;
\* `return bot_response.response_text`.
SaveBotResponse(p) ==
    /\ requests[p].pc = "save"
    /\ bot_responses' =
           [bot_responses EXCEPT ![requests[p].bot_response.pk] =
                                     requests[p].bot_response.row]
    /\ requests' = [requests EXCEPT
           ![p].response_text = requests[p].bot_response.row.response_text,
           ![p].pc = "generated"]
    /\ UNCHANGED <<singleCallVars, provider_calls, openai_enabled,
                   conversations, stored_messages>>

\* No row's test succeeds: the first greeting pattern found answers.
GreetingResponse(p) ==
    /\ requests[p].pc = "loop"
    /\ LoopStops(RowsOf(p), MessageLowerOf(p)) = {}
    /\ GreetingHits(MessageLowerOf(p)) # {}
    /\ requests' = [requests EXCEPT
           ![p].response_text =
               greeting_patterns[
                   Leftmost(GreetingHits(MessageLowerOf(p)))].response,
           ![p].pc = "generated"]
    /\ UNCHANGED <<singleCallVars, provider_calls, bot_responses,
                   openai_enabled, conversations, stored_messages>>

\* Nothing matched: the stock-only message.
StockOnlyResponse(p) ==
    /\ requests[p].pc = "loop"
    /\ LoopStops(RowsOf(p), MessageLowerOf(p)) = {}
    /\ GreetingHits(MessageLowerOf(p)) = {}
    /\ requests' = [requests EXCEPT
           ![p].response_text = StockOnlyMessage,
           ![p].pc = "generated"]
    /\ UNCHANGED <<singleCallVars, provider_calls, bot_responses,
                   openai_enabled, conversations, stored_messages>>

\* _generate_response: `if pattern_response: return pattern_response`
ReturnPatternResponse(p) ==
    /\ requests[p].pc = "generated"
    /\ requests[p].response_text # <<>>
    /\ requests' = [requests EXCEPT
           ![p].generator = "_check_pattern_responses",
           ![p].pc = "save_bot"]
    /\ UNCHANGED <<singleCallVars, provider_calls, bot_responses,
                   openai_enabled, conversations, stored_messages>>

\* _generate_response: `if self.openai_enabled: return
\* self._generate_ai_response(...)`
GenerateAIResponse(p) ==
    /\ requests[p].pc = "generated"
    /\ requests[p].response_text = <<>>
    /\ openai_enabled
    /\ \E ai \in AIResponses :
           requests' = [requests EXCEPT
               ![p].response_text = ai,
               ![p].generator = "_generate_ai_response",
               ![p].pc = "save_bot"]
    /\ UNCHANGED <<singleCallVars, provider_calls, bot_responses,
                   openai_enabled, conversations, stored_messages>>

\* _generate_response: `return self._get_default_response(user_message)`
GetDefaultResponse(p) ==
    /\ requests[p].pc = "generated"
    /\ requests[p].response_text = <<>>
    /\ ~openai_enabled
    /\ requests' = [requests EXCEPT
           ![p].response_text = DefaultResponse,
           ![p].generator = "_get_default_response",
           ![p].pc = "save_bot"]
    /\ UNCHANGED <<singleCallVars, provider_calls, bot_responses,
                   openai_enabled, conversations, stored_messages>>

\* process_message: the bot message is saved, its metadata naming the method
\* by the agent's setting.
CreateBotMessage(p) ==
    /\ requests[p].pc = "save_bot"
    /\ stored_messages' =
           Append(stored_messages,
                  MessageRow(requests[p].conversation_id, "bot",
                             requests[p].response_text,
                             IF openai_enabled THEN Str("ai")
                             ELSE Str("pattern")))
    /\ requests' = [requests EXCEPT ![p].pc = "respond"]
    /\ UNCHANGED <<singleCallVars, provider_calls, bot_responses,
                   openai_enabled, conversations>>

\* process_message has returned; the view answers with the result.
RespondOk(p) ==
    /\ requests[p].pc = "respond"
    /\ requests' = [requests EXCEPT
           ![p].http = HttpResponse(200, requests[p].id, None,
                                    requests[p].response_text),
           ![p].pc = "done"]
    /\ UNCHANGED <<singleCallVars, provider_calls, bot_responses,
                   openai_enabled, conversations, stored_messages>>

\* post: `except Exception`, the answer of an internal error.
RespondInternalError(p) ==
    /\ requests[p].pc = "raised"
    /\ requests' = [requests EXCEPT
           ![p].http = HttpResponse(500, requests[p].id, <<-32603>>, None),
           ![p].pc = "done"]
    /\ UNCHANGED <<singleCallVars, provider_calls, bot_responses,
                   openai_enabled, conversations, stored_messages>>

\* The bodies of the requests, by their positions in Bodies: requests are
\* served alike, so the positions are drawn in ascending order.
BodyChoices ==
    {choice \in [Procs -> 1..Len(Bodies)] :
        \A p, q \in Procs : p < q => choice[p] <= choice[q]}

\* NumRequests requests have arrived at an agent whose conversation log is
\* empty.
InitServer ==
    /\ pc = "serving"
    /\ openai_client = None
    /\ NotStarted
    /\ symbol = None
    /\ provider_calls = <<>>
    /\ openai_calls = <<>>
    /\ NoHistory
    /\ rpc = "serving"
    /\ message = None
    /\ pattern_idx = 0
    /\ response = None
    /\ dispatched = <<>>
    /\ bot_responses \in ServerTables
    /\ openai_enabled \in BOOLEAN
    /\ conversations = <<>>
    /\ stored_messages = <<>>
    /\ \E choice \in BodyChoices :
           requests = [p \in Procs |-> NewRequest(Bodies[choice[p]])]

Serve(p) ==
    \/ RejectRequest(p)
    \/ CallProcessMessage(p)
    \/ GetOrCreateConversation(p)
    \/ CreateUserMessage(p)
    \/ StockStageReturns(p)
    \/ StockStageFallsThrough(p)
    \/ ReadActiveResponses(p)
    \/ IncrementUseCount(p)
    \/ TriggerPatternRaises(p)
    \/ SaveBotResponse(p)
    \/ GreetingResponse(p)
    \/ StockOnlyResponse(p)
    \/ ReturnPatternResponse(p)
    \/ GenerateAIResponse(p)
    \/ GetDefaultResponse(p)
    \/ CreateBotMessage(p)
    \/ RespondOk(p)
    \/ RespondInternalError(p)

NextServer == \E p \in Procs : Serve(p)

SpecServer == InitServer /\ [][NextServer]_vars

-----------------------------------------------------------------------------
(* Properties of calculate_intrinsic_value, checked under Spec *)

\* calculate_intrinsic_value has returned in the call followed.
Valued == pc \in {"valued", "judged"} \/ (pc = "done" /\ data # None)

\* Key k is held by the dict v (which may be None).
Has(v, k) == v # None /\ v[k] # None

Positive(x) == x # None /\ x[1] > 0

\* bookValue = currentPrice / pbRatio is defined and > 0.
BookValuePositive(d) ==
    /\ d.current_price # None /\ d.pb_ratio # None /\ d.pb_ratio[1] # 0
    /\ d.current_price[1] * d.pb_ratio[1] > 0

\* C1: calculate_intrinsic_value returns None if and only if currentPrice is
\* absent; with currentPrice present a ValuationResult is returned whatever
\* other inputs are absent.  A price of zero is counted as absent here, as
\* the code counts it, which favours the claim.
C1_UnavailableIffPriceAbsent ==
    Valued => (valuation = None <=> ~Truthy(data.current_price))

\* C2: whenever a ValuationResult is returned and pegRatio is known (any
\* sign, zero included), the result carries pegVerdict: undervalued when
\* pegRatio < 1, overvalued when pegRatio > 2, fair otherwise.
C2_PegVerdictForEveryKnownPeg ==
    (Valued /\ valuation # None /\ data.peg_ratio # None) =>
        valuation.peg_valuation =
            (IF RLt(data.peg_ratio, Int2Num(1)) THEN Str("undervalued")
             ELSE IF RGt(data.peg_ratio, Int2Num(2)) THEN Str("overvalued")
             ELSE Str("fairly valued"))

\* peFairValue and peUpside are both present exactly when peRatio > 0 and
\* eps > 0, and then peFairValue = eps * 18 and
\* peUpside * currentPrice = (peFairValue - currentPrice) * 100.
PeSignalAsClaimed ==
    /\ Has(valuation, "pe_fair_value")
           <=> (Positive(data.pe_ratio) /\ Positive(data.eps))
    /\ Has(valuation, "pe_upside")
           <=> (Positive(data.pe_ratio) /\ Positive(data.eps))
    /\ Has(valuation, "pe_fair_value") =>
        /\ valuation.pe_fair_value[1] * data.eps[2]
               = 18 * data.eps[1] * valuation.pe_fair_value[2]
        /\ RMul(valuation.pe_upside, data.current_price)
               = RMul(RSub(valuation.pe_fair_value, data.current_price),
                      Int2Num(100))

C4_GrahamIffAndOnlySkipped ==
    (Valued /\ Truthy(data.current_price)) =>
        /\ Has(valuation, "graham_number")
               <=> (Positive(data.eps) /\ BookValuePositive(data))
        /\ Has(valuation, "graham_upside")
               <=> (Positive(data.eps) /\ BookValuePositive(data))
        /\ ~(Positive(data.eps) /\ BookValuePositive(data))
               => valuation # None

\* C5: whenever a ValuationResult is returned and pbRatio is present, the
\* result carries pbSignal: undervalued when pbRatio < 1, overvalued when
\* pbRatio > 3, neutral otherwise.
C5_PbSignalForEveryPresentPb ==
    (Valued /\ valuation # None /\ data.pb_ratio # None) =>
        valuation.pb_signal =
            (IF RLt(data.pb_ratio, Int2Num(1)) THEN Str("undervalued")
             ELSE IF RGt(data.pb_ratio, Int2Num(3)) THEN Str("overvalued")
             ELSE Str("neutral"))

\* C10: for every fetched snapshot for which calculate_intrinsic_value
\* returned a ValuationResult, one with no populated signal included,
\* analyze_stock returns the rendered recommendation, not a failure message.
C10_RecommendationForEveryValuation ==
    (pc = "done" /\ data # None /\ valuation # None) =>
        reply.kind \in {"openai", "rule_based"}

-----------------------------------------------------------------------------
(* Properties of is_undervalued, checked under SpecCalls *)

\* is_undervalued has returned.
Judged == pc \in {"returned", "calculated_judged"}

Range(seq) == {seq[i] : i \in 1..Len(seq)}

Exceeds(x, t) == x # None /\ RGt(x, t)

\* The six conditions of the signal-counting rule, by the name the code
\* appends for each.
VoteCondition(name) ==
    CASE name = "peg"    -> valuation.peg_valuation = Str("undervalued")
      [] name = "pe"     -> Exceeds(valuation.pe_upside, Int2Num(10))
      [] name = "graham" -> Exceeds(valuation.graham_upside, Int2Num(15))
      [] name = "pb"     -> valuation.pb_signal = Str("undervalued")
      [] name = "analyst" -> Exceeds(valuation.target_upside, Int2Num(10))
      [] name = "profitability" ->
             /\ Exceeds(data.roe, Frac(15, 100))
             /\ Exceeds(data.profit_margin, Frac(10, 100))

VoteNames == {"peg", "pe", "graham", "pb", "analyst", "profitability"}

\* C6: the vote count is the number of the six conditions that hold, each
\* counted at most once; a value exactly at its threshold gives no vote.
C6_VotesAreTheConditionsThatHold ==
    Judged =>
        /\ \A name \in VoteNames : name \in Range(signals) <=> VoteCondition(name)
        /\ Range(signals) \subseteq VoteNames
        /\ Len(signals) = Cardinality(Range(signals))
        /\ Len(signals) = Cardinality({n \in VoteNames : VoteCondition(n)})

\* peUpside = 10, grahamUpside = 15 and roe = 0.15 give no vote while three
\* other signals vote.
C6_Witness ==
    /\ pc = "returned"
    /\ valuation.pe_upside = Int2Num(10)
    /\ valuation.graham_upside = Int2Num(15)
    /\ data.roe = Frac(15, 100) /\ data.profit_margin = Frac(12, 100)
    /\ signals = <<"peg", "pb", "analyst">>

\* C7: confidence is decided by the vote count alone (0 none, 1 low,
\* 2 medium, 3 or more high), and isUndervalued holds exactly when
\* confidence is not none.
C7_ConfidenceFromVoteCount ==
    Judged =>
        /\ verdict.confidence =
               (CASE Len(signals) = 0 -> "none"
                  [] Len(signals) = 1 -> "low"
                  [] Len(signals) = 2 -> "medium"
                  [] Len(signals) >= 3 -> "high")
        /\ verdict.is_undervalued <=> verdict.confidence # "none"

C7_Witness ==
    /\ Judged /\ Len(signals) = 3
    /\ verdict.confidence = "high" /\ verdict.is_undervalued

\* The upside estimates the voting signals contribute, in the code's order.
ContributedEstimates ==
    IfThen(VoteCondition("peg"), <<Int2Num(20)>>)
    \o IfThen(VoteCondition("pe"), <<valuation.pe_upside>>)
    \o IfThen(VoteCondition("graham"), <<valuation.graham_upside>>)
    \o IfThen(VoteCondition("pb"), <<Int2Num(15)>>)
    \o IfThen(VoteCondition("analyst"), <<valuation.target_upside>>)

\* C8: expectedUpside is the arithmetic mean of the estimates contributed by
\* the voting signals, and 0 when none was contributed; the profitability
\* vote adds no estimate, so a verdict whose only vote is profitability has
\* confidence low and expectedUpside 0.
C8_ExpectedUpsideIsTheMean ==
    Judged =>
        /\ upside_estimates = ContributedEstimates
        /\ upside_estimates = <<>> => verdict.upside = Int2Num(0)
        /\ upside_estimates # <<>> =>
               RMul(verdict.upside, Int2Num(Len(upside_estimates)))
                   = SumSeq(ContributedEstimates)
        /\ signals = <<"profitability">> =>
               /\ verdict.confidence = "low"
               /\ verdict.upside = Int2Num(0)

\* PEG (20), P/E (20) and P/B (15) vote together with profitability: the
\* mean is 55/3 over three estimates, not four.
C8_Witness ==
    /\ pc = "returned"
    /\ signals = <<"peg", "pe", "pb", "profitability">>
    /\ upside_estimates = <<Int2Num(20), Int2Num(20), Int2Num(15)>>
    /\ verdict.upside = Frac(55, 3)

\* Only current_price is held by the data dict.
OnlyPricePresent(d) ==
    /\ d.current_price # None
    /\ d.pe_ratio = None /\ d.pb_ratio = None /\ d.peg_ratio = None
    /\ d.eps = None /\ d.target_price = None
    /\ d.roe = None /\ d.profit_margin = None

NoVerdict ==
    [is_undervalued |-> FALSE, confidence |-> "none", upside |-> Int2Num(0)]

\* A ValuationResult with no populated signal was returned, and
\* is_undervalued on it gave (false, none, 0).
EmptyValuationNoVerdict ==
    /\ valuation = EmptyResults
    /\ pc = "calculated_judged" => verdict = NoVerdict

-----------------------------------------------------------------------------
(* Properties of analyze_stock for any ticker, checked under SpecTickers *)

\* The provider was asked and its history was empty or its call raised.
FetchFailed ==
    /\ provider_calls # <<>>
    /\ provider_calls[Len(provider_calls)].outcome \in {"raises", "empty"}

\* C11: get_stock_data returns None both when the history is empty and when
\* the provider raises, and analyze_stock then returns the fixed "Unable to
\* fetch data" message for the uppercased ticker, the same for both causes.
C11_FetchFailuresGiveTheFixedMessage ==
    FetchFailed =>
        /\ data = None
        /\ pc = "done" =>
               /\ reply # None
               /\ reply.kind = "unable_to_fetch"
               /\ reply.text =
                      FailureMark \o <<" Unable to fetch data for ">>
                      \o [i \in 1..Len(symbol) |-> UpperChar(symbol[i])]
                      \o <<". Please check the ticker symbol.">>

\* analyze_stock("aapl") with an empty history answers for AAPL.
C11_Witness ==
    /\ pc = "done"
    /\ provider_calls = <<[symbol |-> <<"A", "A", "P", "L">>,
                           outcome |-> "empty"]>>
    /\ symbol = <<"a", "a", "p", "l">>
    /\ SubSeq(reply.text, 4, 7) = <<"A", "A", "P", "L">>

\* The four texts analyze_stock can return, by the statement returning them.
ReplyKinds == {"unable_to_fetch", "unable_to_calculate", "openai", "rule_based"}

\* C12: for every ticker string and every behaviour of the provider
\* (succeeding, empty history, raising) and of the prose collaborator
\* (absent, answering, raising), what analyze_stock returns is a string: one
\* of its four texts, never None and never an exception in place of a value.
C12_AlwaysReturnsAString ==
    pc = "done" =>
        /\ reply # None
        /\ reply.kind \in ReplyKinds
        /\ reply.text # <<>>
        /\ \A i \in 1..Len(reply.text) : reply.text[i] \in STRING

\* analyze_stock("Msft") with a collaborator that raises.
C12_Witness ==
    /\ pc = "done"
    /\ symbol = <<"M", "s", "f", "t">>
    /\ openai_client # None
    /\ openai_calls = <<"raises">>
    /\ reply.kind = "rule_based"

\* C13: when a prose collaborator is configured and its call fails,
\* generate_recommendation returns exactly the text of the rule-based
\* renderer for the same inputs; when none is configured the collaborator is
\* never called and the same rule-based text is returned.
C13_FallbackIsTheRuleBasedText ==
    /\ openai_client = None => openai_calls = <<>>
    /\ (pc = "done" /\ verdict # None) =>
           /\ (openai_client # None /\ openai_calls = <<"raises">>) =>
                  reply = _generate_rule_based_recommendation(verdict)
           /\ openai_client = None =>
                  reply = _generate_rule_based_recommendation(verdict)

\* The collaborator raised for a verdict of high confidence and upside 24.
C13_Witness ==
    /\ pc = "done"
    /\ openai_client # None
    /\ openai_calls = <<"raises">>
    /\ verdict.confidence = "high"
    /\ reply.kind = "rule_based"
    /\ reply.action = "STRONG BUY"

-----------------------------------------------------------------------------
(* Properties of is_undervalued followed by the rule-based renderer,        *)
(* checked under Spec                                                       *)

\* analyze_stock has returned the text of the rule-based renderer.
RuleBasedRendered == pc = "done" /\ reply.kind = "rule_based"

\* C24: in analyze_stock the number of votes fixes the action label of the
\* rule-based text: no vote gives HOLD, one vote HOLD/ACCUMULATE, two votes
\* BUY, three or more BUY or STRONG BUY; a verdict of medium or high
\* confidence is never rendered as HOLD, every contributed estimate being
\* above 10 and at most one vote contributing none.
C24_VoteCountFixesTheLabel ==
    RuleBasedRendered =>
        /\ Len(signals) = 0 => reply.action = "HOLD"
        /\ Len(signals) = 1 => reply.action = "HOLD/ACCUMULATE"
        /\ Len(signals) = 2 => reply.action = "BUY"
        /\ Len(signals) >= 3 => reply.action \in {"BUY", "STRONG BUY"}
        /\ verdict.confidence \in {"medium", "high"} => reply.action # "HOLD"
        /\ \A i \in 1..Len(upside_estimates) :
               RGt(upside_estimates[i], Int2Num(10))
        /\ Len(signals) - Len(upside_estimates) \in {0, 1}

\* Three votes or more whose mean estimate is not above 20: the verdict has
\* high confidence and is rendered as BUY.
C24_Witness ==
    /\ RuleBasedRendered
    /\ Len(signals) >= 3
    /\ Len(upside_estimates) = Len(signals) - 1
    /\ reply.action = "BUY"

-----------------------------------------------------------------------------
(* Properties of the renderer and of _calculate_return, checked under        *)
(* SpecCalls                                                                 *)

\* C14: the action label is STRONG BUY when isUndervalued and confidence =
\* high and upside > 20; else BUY when isUndervalued and confidence is high
\* or medium and upside > 10; else HOLD/ACCUMULATE when isUndervalued and
\* confidence = low; else HOLD.  Every verdict gets one label, and an
\* undervalued verdict of high or medium confidence with upside <= 10 gets
\* HOLD.
C14_ActionLabelDecisionTable ==
    pc = "rendered" =>
        LET u      == verdict.is_undervalued
            c      == verdict.confidence
            over20 == verdict.upside[1] > 20 * verdict.upside[2]
            over10 == verdict.upside[1] > 10 * verdict.upside[2]
            strong == u /\ c = "high" /\ over20
            buy    == u /\ c \in {"high", "medium"} /\ over10
            accum  == u /\ c = "low"
        IN  /\ strong => reply.action = "STRONG BUY"
            /\ (~strong /\ buy) => reply.action = "BUY"
            /\ (~strong /\ ~buy /\ accum) => reply.action = "HOLD/ACCUMULATE"
            /\ (~strong /\ ~buy /\ ~accum) => reply.action = "HOLD"
            /\ (u /\ c \in {"high", "medium"} /\ ~over10) =>
                   reply.action = "HOLD"

\* An undervalued verdict of high confidence with upside exactly 10.
C14_Witness ==
    /\ pc = "rendered"
    /\ verdict.is_undervalued /\ verdict.confidence = "high"
    /\ verdict.upside = Int2Num(10)
    /\ reply.action = "HOLD"

\* C15: for each window w, the derived return is absent when the history
\* has fewer than w closes or when the start close close[-w] is zero, and
\* otherwise equals (close[-1] - close[-w]) / close[-w] * 100.
C15_ReturnAbsentForShortHistoryOrZeroStart ==
    pc = "returns_done" =>
        \A w \in Windows :
            IF Len(hist) < w THEN returns[w] = None
            ELSE LET first == hist[Len(hist) - w + 1]
                     last  == hist[Len(hist)]
                 IN  IF first[1] = 0 THEN returns[w] = None
                     ELSE /\ IsFinite(returns[w])
                          /\ RMul(returns[w], first)
                                 = RMul(RSub(last, first), Int2Num(100))

-----------------------------------------------------------------------------
(* Properties of _check_pattern_responses, checked under SpecRoute *)

\* _check_pattern_responses has returned.
Returned ==
    rpc \in {"returned_name", "returned_direct", "returned_custom",
             "returned_greeting", "returned_fallback"}

FailureKinds == {"unable_to_fetch", "unable_to_calculate"}

\* The dispatch gave a rendered analysis: a recommendation, and one the
\* router does not take for a failure.
RenderedAnalysis(d) ==
    /\ d.reply.kind \in {"openai", "rule_based"}
    /\ ~startswith(d.reply.text, CrossMark)

\* The active rows whose pattern matches the message.
MatchingActive ==
    {pk \in DOMAIN bot_responses :
        /\ bot_responses[pk].is_active
        /\ TriggerMatches(bot_responses[pk], MessageLower)}

\* The matching active row that is first by priority descending, then by
\* trigger pattern ascending.
FirstMatching ==
    CHOOSE pk \in MatchingActive :
        \A q \in MatchingActive \ {pk} :
            \/ bot_responses[pk].priority > bot_responses[q].priority
            \/ /\ bot_responses[pk].priority = bot_responses[q].priority
               /\ TextBefore(bot_responses[pk].trigger_pattern,
                             bot_responses[q].trigger_pattern)

\* C16: the reply is decided by the first stage that matches, in the order:
\* a stock dispatch that yields a rendered analysis, then the active custom
\* patterns, then the built-in greeting patterns, then the stock-only
\* message.
C16_FirstMatchingStageDecides ==
    Returned =>
        LET analyses == {i \in 1..Len(dispatched) :
                            RenderedAnalysis(dispatched[i])}
        IN  IF analyses # {}
            THEN response = dispatched[Leftmost(analyses)].reply.text
            ELSE IF MatchingActive # {}
            THEN response = bot_responses[FirstMatching].response_text
            ELSE IF GreetingHits(MessageLower) # {}
            THEN response =
                     greeting_patterns[Leftmost(GreetingHits(MessageLower))]
                         .response
            ELSE response = StockOnlyMessage

\* C17: when the candidate resolves to a ticker through the name table and
\* the pipeline's fetch or valuation for it fails, the router does not
\* return the failure text: it goes on to the next pattern and the later
\* stages.
C17_NameDispatchFailureFallsThrough ==
    \A i \in 1..Len(dispatched) :
        (dispatched[i].via = "name"
         /\ dispatched[i].reply.kind \in FailureKinds) =>
            /\ rpc # "returned_name"
            /\ Returned => response # dispatched[i].reply.text

\* C18: when a token of 2 to 5 characters that is not in the name table is
\* tried as a ticker and the pipeline fails, the router takes the failure
\* message for a failure and returns none of it: it goes on to the next
\* pattern and the later stages.
C18_DirectDispatchFailureFallsThrough ==
    \A i \in 1..Len(dispatched) :
        (dispatched[i].via = "direct"
         /\ dispatched[i].reply.kind \in FailureKinds) =>
            /\ ~(rpc = "returned_direct" /\ i = Len(dispatched))
            /\ Returned => response # dispatched[i].reply.text

\* The patterns the loop over natural_stock_patterns has been at.
VisitedPatterns ==
    IF rpc \in {"returned_name", "returned_direct"} THEN 1..pattern_idx
    ELSE 1..3

\* The pipeline was dispatched for pattern k with exactly the ticker sym,
\* and the provider was asked for it.
DispatchedFor(k, sym) ==
    /\ \E i \in 1..Len(dispatched) :
           dispatched[i].pattern = k /\ dispatched[i].symbol = sym
    /\ \A i \in 1..Len(dispatched) :
           dispatched[i].pattern = k => dispatched[i].symbol = sym
    /\ \E j \in 1..Len(provider_calls) : provider_calls[j].symbol = sym

\* A candidate that is a company name of the table, in any letter case,
\* dispatches the pipeline for exactly the mapped ticker.
NameDispatchesMappedTicker ==
    \A k \in VisitedPatterns :
        LET group == StockSearch(k, message)
        IN  (group # None /\ lower(group) \in DOMAIN stock_names) =>
                DispatchedFor(k, stock_names[lower(group)])

\* The message is "$" and 1 to 5 letters.
IsDollarToken(m) ==
    /\ Len(m) \in 2..6
    /\ m[1] = "$"
    /\ \A i \in 2..Len(m) : IsLetter(m[i])

\* The pipeline is dispatched once, by the ticker pattern, for the letters
\* of the message as a ticker.
DollarTokenDispatched ==
    /\ Len(dispatched) = 1
    /\ DispatchedFor(3, upper(Tail(message)))

\* C19 as stated: a candidate that is a company name dispatches the mapped
\* ticker, and a message that is a $TICKER token dispatches the pipeline
\* for exactly that ticker.
C19_NameOrDollarTickerDispatched ==
    Returned =>
        /\ NameDispatchesMappedTicker
        /\ IsDollarToken(message) => DollarTokenDispatched

\* C19 as amended: the same for a $TICKER token of 2 to 5 letters that is
\* not a company name of the table.
C19_NameOrDollarTickerOfTwoToFive ==
    Returned =>
        /\ NameDispatchesMappedTicker
        /\ (/\ IsDollarToken(message)
            /\ Len(message) >= 3
            /\ lower(Tail(message)) \notin DOMAIN stock_names) =>
               DollarTokenDispatched

\* "$AAPL" was dispatched for AAPL and the analysis returned.
C19_Witness ==
    /\ rpc = "returned_direct"
    /\ message = <<"$", "A", "A", "P", "L">>
    /\ dispatched[1].symbol = <<"A", "A", "P", "L">>
    /\ dispatched[1].pattern = 3
    /\ provider_calls[1].symbol = <<"A", "A", "P", "L">>

\* C20: when active custom patterns match the message and no stock stage
\* returned, the response is that of the pattern first in the order
\* (priority descending, then trigger pattern ascending), its use_count is
\* incremented by exactly one, and the use_count of every other row,
\* matching or not, active or not, is unchanged.
C20_FirstCustomPatternWinsAndCounts ==
    [][(rpc = "custom" /\ rpc' = "returned_custom") =>
          /\ MatchingActive # {}
          /\ response' = bot_responses[FirstMatching].response_text
          /\ \A pk \in DOMAIN bot_responses :
                 bot_responses'[pk].use_count =
                     IF pk = FirstMatching
                     THEN bot_responses[pk].use_count + 1
                     ELSE bot_responses[pk].use_count]_vars

\* "hello help" matches the three rows, all active; "help" has priority 10
\* and the others 5: its response is returned and only its count moves.
C20_Witness ==
    /\ rpc = "returned_custom"
    /\ message = <<"h", "e", "l", "l", "o", " ", "h", "e", "l", "p">>
    /\ \A pk \in 1..3 : bot_responses[pk].is_active
    /\ bot_responses[1].priority = 5
    /\ bot_responses[2].priority = 10
    /\ bot_responses[3].priority = 5
    /\ response = Triggers[2].response_text
    /\ bot_responses[1].use_count = 0
    /\ bot_responses[2].use_count = 4
    /\ bot_responses[3].use_count = 7

\* C22: within one route call the market-data provider is never asked twice
\* for the same ticker.
C22_ProviderAskedOncePerTicker ==
    \A i, j \in 1..Len(provider_calls) :
        provider_calls[i].symbol = provider_calls[j].symbol => i = j

\* The analyze_stock calls the router made for the pattern k.
DispatchesOf(k) == {i \in 1..Len(dispatched) : dispatched[i].pattern = k}

\* C23: a candidate that is not a key of the name table is dispatched to the
\* pipeline, as the ticker it spells, if and only if it has 2 to 5
\* characters; for a candidate of one character or of more than five the
\* pattern dispatches nothing, and the provider is asked only by a dispatch.
C23_DirectDispatchIffTwoToFive ==
    Returned =>
        /\ Len(provider_calls) = Len(dispatched)
        /\ \A k \in VisitedPatterns :
               (Candidate(k) # None /\ Candidate(k) \notin DOMAIN stock_names)
               => IF Len(Candidate(k)) \in 2..5
                  THEN /\ Cardinality(DispatchesOf(k)) = 1
                       /\ \A i \in DispatchesOf(k) :
                              /\ dispatched[i].via = "direct"
                              /\ dispatched[i].symbol = upper(Candidate(k))
                              /\ provider_calls[i].symbol = upper(Candidate(k))
                  ELSE DispatchesOf(k) = {}

\* "$V" was routed: its one-letter candidate caused no dispatch and no
\* provider call.
C23_Witness ==
    /\ Returned
    /\ message = <<"$", "V">>
    /\ Candidate(3) = <<"v">>
    /\ dispatched = <<>>
    /\ provider_calls = <<>>

-----------------------------------------------------------------------------
(* Properties of requests served at the same time, checked under SpecServer *)

\* The use_count the row pk starts with.
StartingUseCount(pk) == ServerTriggers(<<>>, FALSE)[pk].use_count

\* The requests whose route call matched the custom pattern of the row pk.
MatchedRow(pk) ==
    {p \in Procs :
        /\ requests[p].bot_response # None
        /\ requests[p].bot_response.pk = pk}

AllDone == \A p \in Procs : requests[p].pc = "done"

\* C21: when the route calls that match the same custom pattern have all
\* ended, whatever the interleaving of their read, increment and save
\* steps, the stored use_count of the pattern is higher than at the start by
\* the number of those calls: no increment is lost.
C21_NoIncrementLost ==
    AllDone =>
        \A pk \in DOMAIN bot_responses :
            bot_responses[pk].use_count =
                StartingUseCount(pk) + Cardinality(MatchedRow(pk))

\* No active row of the table has an empty response text.
ActiveTextsNonEmpty ==
    \A pk \in DOMAIN bot_responses :
        bot_responses[pk].is_active => bot_responses[pk].response_text # <<>>

\* Every text analyze_stock returned to the request p is non-empty.
PipelineTextsNonEmpty(p) ==
    \A i \in 1..Len(requests[p].pipeline_replies) :
        requests[p].pipeline_replies[i] # <<>>

\* _generate_response has returned in the request p.
Generated(p) == requests[p].generator # ""

\* The bot messages stored so far.
BotMessages ==
    {i \in 1..Len(stored_messages) : stored_messages[i].message_type = "bot"}

\* C25: when every active custom pattern has a non-empty response text and
\* the pipeline returns non-empty text, _check_pattern_responses returns a
\* non-empty reply, so _generate_response returns it and calls neither
\* _generate_ai_response nor _get_default_response; a stored bot message is
\* labelled 'ai' whenever the agent has an OpenAI key, 'pattern' otherwise.
C25_GenericResponsesUnreachable ==
    /\ \A p \in Procs :
           (Generated(p) /\ ActiveTextsNonEmpty /\ PipelineTextsNonEmpty(p))
           => /\ requests[p].generator = "_check_pattern_responses"
              /\ requests[p].response_text # <<>>
    /\ \A i \in BotMessages :
           stored_messages[i].method =
               IF openai_enabled THEN Str("ai") ELSE Str("pattern")

\* A request that nothing matched was answered with the stock-only message
\* by an agent that has an OpenAI key: the message is stored as 'ai'.
C25_Witness ==
    /\ openai_enabled
    /\ ActiveTextsNonEmpty
    /\ \E p \in Procs :
           /\ requests[p].pc = "done"
           /\ requests[p].http.status = 200
           /\ requests[p].generator = "_check_pattern_responses"
           /\ requests[p].response_text = StockOnlyMessage
           /\ \E i \in BotMessages :
                  /\ stored_messages[i].content = StockOnlyMessage
                  /\ stored_messages[i].method = Str("ai")

\* The body is of the JSON-RPC 2.0 format.
IsJsonRpc(body) ==
    In("jsonrpc", body) /\ body.items["jsonrpc"].value = Str("2.0")

\* The id the request gave, None when it gave none.
IdGiven(body) ==
    IF In("id", body) /\ body.items["id"].type = "str"
    THEN body.items["id"].value
    ELSE None

\* The error code the validation owes the body, None for a body it passes.
ErrorCodeOwed(body) ==
    IF ~In("id", body) THEN <<-32600>>
    ELSE IF In("params", body) /\ body.items["params"].type # "dict"
    THEN <<-32602>>
    ELSE IF \/ ~In("params", body)
            \/ UserMessage(body.items["params"]) = <<>>
    THEN <<-32602>>
    ELSE None

\* What the requests can change outside their own locals.
sharedVars == <<conversations, stored_messages, bot_responses, provider_calls>>

\* C26: a JSON-RPC 2.0 request that the validation rejects (no id: -32600;
\* params that is no object, or no message text: -32602) is answered with
\* HTTP 400 in the step that receives it, before process_message: the step
\* creates no conversation, stores no message, changes no use counter and
\* asks the provider nothing, and the request does nothing afterwards; an
\* error response carries the id the request gave.
C26_RejectedRequestsLeaveNoTrace ==
    [][\A p \in Procs :
           /\ (/\ IsJsonRpc(requests[p].body)
               /\ ErrorCodeOwed(requests[p].body) # None
               /\ requests'[p] # requests[p])
              => /\ requests[p].pc = "received"
                 /\ requests'[p].pc = "done"
                 /\ requests'[p].http =
                        HttpResponse(400, IdGiven(requests[p].body),
                                     ErrorCodeOwed(requests[p].body), None)
                 /\ UNCHANGED sharedVars
           /\ (/\ IsJsonRpc(requests[p].body)
               /\ requests'[p].http # None
               /\ requests'[p].http.status # 200)
              => requests'[p].http.id = IdGiven(requests[p].body)]_vars

\* The request "r2", whose params is a list, was answered with 400 and
\* -32602 after another request had been served: the conversation log
\* holds the other request's two messages only.
C26_Witness ==
    \E p, q \in Procs :
        /\ requests[p].pc = "done"
        /\ requests[p].http = HttpResponse(400, <<"r", "2">>, <<-32602>>, None)
        /\ requests[q].pc = "done"
        /\ requests[q].http.status = 200
        /\ Len(conversations) = 1
        /\ Len(stored_messages) = 2

\* The number of messages of this type the log holds for the conversation.
CountMessages(log, conversation_id, message_type) ==
    Cardinality({i \in 1..Len(log) :
                    /\ log[i].conversation = conversation_id
                    /\ log[i].message_type = message_type})

\* The call of process_message for the request p is past line 53 (the user
\* message is saved), whether it returned, raised or still runs.
PastUserMessage(p) ==
    \/ requests[p].pc \in {"stock", "custom", "loop", "save", "generated",
                           "save_bot", "respond", "raised"}
    \/ /\ requests[p].pc = "done"
       /\ requests[p].http.status \in {200, 500}

\* The call of process_message for the request p is past line 64 (the bot
\* message is saved): it is a completed call.
PastBotMessage(p) ==
    \/ requests[p].pc = "respond"
    \/ /\ requests[p].pc = "done"
       /\ requests[p].http.status = 200

\* The conversation ids of the calls made so far.
CalledConversations ==
    {requests[p].conversation_id : p \in {q \in Procs : PastUserMessage(q)}}

\* The messages are accounted for: none is stored for a conversation no call
\* named, and of the calls that name a conversation each one past line 53
\* has stored one user message there and each one past line 64 one bot
\* message, with no other message in it.
MessagesAccounted ==
    /\ \A i \in 1..Len(stored_messages) :
           stored_messages[i].conversation \in CalledConversations
    /\ \A c \in CalledConversations :
           /\ CountMessages(stored_messages, c, "user") =
                  Cardinality({p \in Procs : /\ PastUserMessage(p)
                                             /\ requests[p].conversation_id = c})
           /\ CountMessages(stored_messages, c, "bot") =
                  Cardinality({p \in Procs : /\ PastBotMessage(p)
                                             /\ requests[p].conversation_id = c})
           /\ CountMessages(stored_messages, c, "user")
                  >= CountMessages(stored_messages, c, "bot")

\* C27: process_message stores the user message before the reply is
\* generated and the bot message after it, and a stored message is never
\* deleted or changed (the log only grows at its end); so in every state,
\* whatever the interleaving of the calls and also when reply generation
\* raises, each conversation holds at least as many user messages as bot
\* messages, and every completed call has added exactly one user message and
\* one bot message to the conversation its conversation_id names.
C27_UserMessageBeforeBotMessage ==
    [][/\ Len(stored_messages') >= Len(stored_messages)
       /\ SubSeq(stored_messages', 1, Len(stored_messages)) = stored_messages
       /\ MessagesAccounted'
       /\ \A p \in Procs :
              /\ Generated(p)' => PastUserMessage(p)'
              /\ PastBotMessage(p)' => Generated(p)']_vars

\* Two calls have ended: one completed, in a conversation that now holds its
\* user message and its bot message; reply generation raised in the other,
\* whose conversation holds a user message and no bot message.
C27_Witness ==
    \E p, q \in Procs :
        /\ AllDone
        /\ requests[p].http.status = 200
        /\ requests[q].http.status = 500
        /\ requests[p].conversation_id # requests[q].conversation_id
        /\ CountMessages(stored_messages, requests[p].conversation_id, "user") = 1
        /\ CountMessages(stored_messages, requests[p].conversation_id, "bot") = 1
        /\ CountMessages(stored_messages, requests[q].conversation_id, "user") = 1
        /\ CountMessages(stored_messages, requests[q].conversation_id, "bot") = 0

\* Two calls run in the same conversation, both past their user message and
\* before their bot message.
C27_Interleaved ==
    \E p, q \in Procs :
        /\ p # q
        /\ requests[p].conversation_id = requests[q].conversation_id
        /\ requests[p].pc = "save_bot"
        /\ requests[q].pc = "save_bot"
        /\ Len(stored_messages) = 2

\* The step is the call of _get_or_create_conversation for the request p.
CallsGetOrCreate(p) ==
    /\ requests[p].pc = "get_or_create"
    /\ requests'[p].pc = "save_user"

\* C28: process_message creates a conversation only when none exists for the
\* conversation_id it is given, with the user_id and channel_id of that call;
\* when one exists the table is left as it is, the stored user_id and
\* channel_id included, whatever values the call passes.  So no row of the
\* table ever changes, and there is at most one conversation per
\* conversation_id, carrying the user_id and channel_id of the first call.
C28_ConversationCreatedOnce ==
    [][/\ Len(conversations') >= Len(conversations)
       /\ SubSeq(conversations', 1, Len(conversations)) = conversations
       /\ \A i \in 1..Len(conversations') :
              Cardinality(ConversationsOf(conversations',
                                          conversations'[i].conversation_id))
                  = 1
       /\ (conversations' # conversations)
              => \E p \in Procs : CallsGetOrCreate(p)
       /\ \A p \in Procs :
              CallsGetOrCreate(p) =>
                  /\ ConversationsOf(conversations',
                                     requests[p].conversation_id) # {}
                  /\ IF ConversationsOf(conversations,
                                        requests[p].conversation_id) # {}
                     THEN conversations' = conversations
                     ELSE conversations' =
                              Append(conversations,
                                     ConversationRow(
                                         requests[p].conversation_id,
                                         requests[p].user_id,
                                         requests[p].channel_id))]_vars

\* Two calls named the same conversation with different user_id and
\* channel_id, and both have ended: the table holds one conversation, with
\* the values of one call and not of the other.
C28_Witness ==
    \E p, q \in Procs :
        /\ AllDone
        /\ requests[p].http.status = 200
        /\ requests[q].http.status = 200
        /\ requests[p].conversation_id = requests[q].conversation_id
        /\ requests[p].user_id # requests[q].user_id
        /\ requests[p].channel_id # requests[q].channel_id
        /\ conversations =
               <<ConversationRow(requests[p].conversation_id,
                                 requests[p].user_id, requests[p].channel_id)>>

=============================================================================
